---- MODULE Spec2Model ----
(***************************************************************************)
(* CheckMate Chrome extension: the analytics aggregator of                 *)
(* src/src/utils/firebase.js (class and student aggregates kept in         *)
(* Firestore) with the handlers of src/src/App.jsx that drive it, and the  *)
(* chat assistant: cosineSimilarity and searchSimilar of                   *)
(* src/src/utils/embeddings.js, sendChatMessageWithRAG and the chunk       *)
(* batching of src/src/utils/googleClassroom.js (the same code is in       *)
(* src/src/utils/chatbot.js), handleSendMessage and handleStopMessage of   *)
(* src/src/App.jsx.                                                        *)
(*                                                                         *)
(* Numbers.  In the aggregates a JavaScript number is modelled as an exact *)
(* rational <<n,d>> in lowest terms (d > 0), or NaN = <<0,0>>, or          *)
(* Infinity = <<1,0>>; IEEE-754 rounding is not modelled there: equalities *)
(* between averages are equalities of the exact values.  In                *)
(* cosineSimilarity a number is a binary floating-point number <<m,e>>     *)
(* and every operation rounds to nearest, ties to even, with a             *)
(* significand of Precision bits.                                          *)
(*                                                                         *)
(* Strings that the code transforms (topics, the retrieval context, error  *)
(* messages) are sequences of letters or words, so that toLowerCase(),     *)
(* trim(), join() and includes() are computed, not assumed.                *)
(*                                                                         *)
(* Specifications.                                                         *)
(*   Spec         the two handlers of App.jsx, one operation at a time     *)
(*   SpecApi      the functions of firebase.js on grade records that carry *)
(*                their topics, recalculations run a second time           *)
(*   SpecConc     two saves interleaved at every await                     *)
(*   SpecRace     one save and one deletion interleaved at every await     *)
(*   SpecCosine   cosineSimilarity on every pair of small vectors          *)
(*   SpecRetrieve the retrieval step on every list of up to MaxDocs        *)
(*                documents                                                *)
(*   SpecChat     one turn of the assistant: retrieval, request, streamed  *)
(*                response batched by the timer, tool calls, stop calls    *)
(*   SpecCall     sendChatMessageWithRAG called with and without a user    *)
(*                message and a teacher id                                 *)
(*   SpecIndex    handleSaveGrades and handleGenerateLessonPlanFromChat    *)
(*                with the indexing they start, one awaited call at a time *)
(*   SpecMalformed     updateClassAnalytics and updateStudentAnalytics on  *)
(*                aggregates that lack a field, with non-numeric scores    *)
(*   SpecConversation  addMessageToConversation, updateConversationTitle   *)
(*                and deleteConversation interleaved at every await        *)
(*   SpecNaming   generateConversationName with every outcome of its       *)
(*                requests (SpecNamingLive: with fairness of its steps)    *)
(*   SpecSession  several turns of the chat panel: handleSendMessage       *)
(*                called again after handleStopMessage                     *)
(*   SpecPartial  the two handlers, with saves of which an aggregate       *)
(*                update is rejected                                       *)
(*   SpecReader   the reading loop of sendChatMessageWithRAG on the        *)
(*                characters of the event stream, cut into reads in        *)
(*                every way, with the batching handler and its timers      *)
(*                                                                         *)
(* Left out: the collections aiGradingResults and strugglingTopics and the *)
(* content of the embeddings and of the generated lesson plans.  A         *)
(* rejected Firestore call of the analytics functions is modelled in       *)
(* SpecPartial only; elsewhere the analytics operations are the completed  *)
(* ones.                                                                   *)
(***************************************************************************)
EXTENDS Integers, Sequences, FiniteSets, TLC

\* ------------------------------------------------------------- bounds
\* At most this many grade documents are ever created.
MaxGrades == 3

\* ------------------------------------------------------------- state
VARIABLES
  grades,            \* collection grades: document id -> document
  classAnalytics,    \* document classAnalytics/{ClassId}
  studentAnalytics,  \* documents studentAnalytics/{s}/classes/{ClassId}
  now,               \* Date.now()
  givenTopics,       \* history: id -> the strugglingTopics of the save that made it
  hist,              \* history of the class aggregate since it was last empty
  lastOp,            \* history: the operation that ran last
  procs,             \* the calls in progress: where each is, what it has read
  version,           \* Firestore's version of each aggregate document
  serial,            \* history: the transactions in the order they committed
  vecA, vecB,        \* the arguments of a call of cosineSimilarity
  similarity,        \* what the call did: returned a number, or threw
  queryEmbedding,    \* the embedding of the latest user message
  allDocuments,      \* the teacher's RAG documents, in the order they are fetched
  retrieval,         \* how the retrieval step of the turn went
  retrievedDocs,     \* sendChatMessageWithRAG's retrievedDocs
  contextString,     \* sendChatMessageWithRAG's contextString
  pc,                \* where the turn of handleSendMessage is
  aborted,           \* controller.signal.aborted
  messages,          \* React state messages
  error,             \* React state error
  rejection,         \* history: the error caught by handleSendMessage
  request,           \* history: the generation request that was issued
  parts,             \* the parts of the streamed response, and how many were read
  fullText,          \* sendChatMessageWithRAG's fullText
  batchedText,       \* createBatchedChunkHandler's batchedText
  timeoutId,         \* createBatchedChunkHandler's timeoutId: a timer is pending
  delivered,         \* history: the chunks passed to onChunk, in order
  deliveredAtAbort,  \* history: how many chunks had been passed when abort() was called
  abortController,   \* React state abortController: a controller, or null (FALSE)
  isSendingMessage,  \* React state isSendingMessage
  stops,             \* history: where the turn was at each call of handleStopMessage
  stopThrew,         \* history: a call of handleStopMessage threw
  messagesForAPI,    \* handleSendMessage's messagesForAPI: the argument messages
  isSearchingData,   \* React state isSearchingData
  searchEvents,      \* history: the calls of onRetrievalStart and onRetrievalComplete
  toolCalls,         \* sendChatMessageWithRAG's toolCalls
  generations,       \* history: the calls of handleGenerateLessonPlanFromChat
  indexJobs,         \* the calls of indexGradeForRAG, by grade: where each is
  lessonPlans,       \* collection lessonPlans, and the indexing of each plan
  ragLog,            \* the RAG index: which calls have written their documents
  reports,           \* history: what the handlers reported to the user
  conversation,      \* document conversations/{teacherId}/userConversations/{id}
  convCalls,         \* the calls on the conversation in progress, and what each has read
  convNow,           \* Date.now() of the conversation calls
  convLog,           \* history: the messages stored and added so far
  naming,            \* a call of generateConversationName: where it is, what it got
  session,           \* turns of handleSendMessage following one another
  reader             \* the event stream of a response and how it is read

\* The analytics store and the calls on it.
storeVars == <<grades, classAnalytics, studentAnalytics, now, givenTopics, hist, lastOp,
               procs, version, serial>>
\* The chat assistant: retrieval and the turn in progress.
cosineVars == <<vecA, vecB, similarity>>
retrievalVars == <<queryEmbedding, allDocuments, retrieval, retrievedDocs, contextString>>
turnVars == <<pc, aborted, messages, error, rejection, request, parts, fullText,
              batchedText, timeoutId, delivered, deliveredAtAbort>>
controlVars == <<abortController, isSendingMessage, stops, stopThrew>>
callVars == <<messagesForAPI, isSearchingData, searchEvents>>
toolVars == <<toolCalls, generations>>
assistantVars == <<cosineVars, retrievalVars, turnVars, controlVars, callVars, toolVars>>
\* The semantic index and the handlers' reports.
indexVars == <<indexJobs, lessonPlans, ragLog, reports>>
\* One stored conversation and the calls on it.
conversationVars == <<conversation, convCalls, convNow, convLog>>
\* What runs beside the turn modelled in turnVars: the stored conversation,
\* the naming of a conversation, a session of several turns, the reader of
\* the event stream.
clientVars == <<conversationVars, naming, session, reader>>
chatVars == <<assistantVars, indexVars, clientVars>>

vars == <<storeVars, chatVars>>

\* ------------------------------------------------------------- inputs
Students == {"s1", "s2"}
Assignments == {"a1", "a2"}
\* The submissions that get graded: <<student, assignment>>.
Submissions == {<<"s1", "a1">>, <<"s1", "a2">>, <<"s2", "a1">>}
\* selectedSubmission.studentName: the roster name, never empty
\* ('Unknown Student' is the fallback).
NameOf(s) == IF s = "s1" THEN "Ann" ELSE "Unknown Student"
ClassId == "c1"
TeacherId == "t1"

\* Raw topic strings as the grader returns them: "Fr", "fr " and "a".
TopicFr == <<"F", "r">>
TopicFrSp == <<"f", "r", " ">>
TopicA == <<"a">>

\* gradingResult values {overallScore, totalPoints, strugglingTopics}.
\* strugglingTopics is always an array (App.jsx forces [] otherwise).
GradingResults ==
  { [overallScore |-> 9, totalPoints |-> 10, strugglingTopics |-> <<TopicFr, TopicFrSp>>],
    [overallScore |-> 7, totalPoints |-> 10, strugglingTopics |-> << >>],
    [overallScore |-> 0, totalPoints |-> 0,  strugglingTopics |-> <<TopicA>>],
    [overallScore |-> 5, totalPoints |-> 0,  strugglingTopics |-> << >>] }

\* ------------------------------------------------------------- numbers
RECURSIVE Gcd(_, _)
Gcd(a, b) == IF b = 0 THEN a ELSE Gcd(b, a % b)

NaN == <<0, 0>>
Infinity == <<1, 0>>
Num(n, d) == LET g == Gcd(n, d) IN <<n \div g, d \div g>>
Zero == Num(0, 1)
IsFiniteNum(x) == x[2] # 0

\* a / b for non-negative integers a, b.
JsDivInt(a, b) ==
  IF b = 0 THEN (IF a = 0 THEN NaN ELSE Infinity) ELSE Num(a, b)

\* x * k for a number x and a non-negative integer k.
JsMulInt(x, k) ==
  IF x = NaN THEN NaN
  ELSE IF x = Infinity THEN (IF k = 0 THEN NaN ELSE Infinity)
  ELSE Num(x[1] * k, x[2])

\* x + y for non-negative numbers.
JsAdd(x, y) ==
  IF x = NaN \/ y = NaN THEN NaN
  ELSE IF x = Infinity \/ y = Infinity THEN Infinity
  ELSE Num(x[1] * y[2] + y[1] * x[2], x[2] * y[2])

\* x / k for a number x and a non-negative integer k.
JsDivByInt(x, k) ==
  IF x = NaN THEN NaN
  ELSE IF x = Infinity THEN Infinity
  ELSE IF k = 0 THEN (IF x[1] = 0 THEN NaN ELSE Infinity)
  ELSE Num(x[1], x[2] * k)

\* x || 0: NaN and 0 are falsy.
OrZero(x) == IF x = NaN THEN Zero ELSE x

\* x <= y for finite numbers.
NumLeq(x, y) == x[1] * y[2] <= y[1] * x[2]

\* (overallScore / totalPoints) * 100
Percentage(score, total) == JsMulInt(JsDivInt(score, total), 100)

\* A score that is not a number, as the grader's JSON may carry it.  A
\* gradeData record without the field overallScore stands for a gradeData
\* whose overallScore is this string.
NotANumber == "N/A"
\* data.field || fallback, for a field that the document may lack.
FieldOr(data, field, fallback) == IF field \in DOMAIN data THEN data[field] ELSE fallback
\* {...data, ...updates}
Merge(data, updates) ==
  [k \in (DOMAIN data) \cup (DOMAIN updates) |->
     IF k \in DOMAIN updates THEN updates[k] ELSE data[k]]
\* A score that is not a number counts as 0.
GuardedPercentage(gradeData) ==
  IF "overallScore" \in DOMAIN gradeData
  THEN Percentage(gradeData.overallScore, gradeData.totalPoints)
  ELSE Zero
\* (gradeData.overallScore / gradeData.totalPoints) * 100, where overallScore
\* may be undefined: undefined / n is NaN.
CurrentPercentage(gradeData) ==
  IF "overallScore" \in DOMAIN gradeData
  THEN Percentage(gradeData.overallScore, gradeData.totalPoints)
  ELSE NaN

\* ------------------------------------------------------------- topics
\* A string left in the case it was given: toLowerCase() omitted.
KeepCase(s) == s

\* String.prototype.toLowerCase on the model's alphabet.
LowerChar(c) == IF c = "F" THEN "f" ELSE c
ToLowerCase(s) == [i \in 1..Len(s) |-> LowerChar(s[i])]

IsWhite(c) == c \in {" ", "\n"}
RECURSIVE TrimStart(_)
TrimStart(s) ==
  IF s # << >> /\ IsWhite(Head(s)) THEN TrimStart(Tail(s)) ELSE s
RECURSIVE TrimEnd(_)
TrimEnd(s) ==
  IF s # << >> /\ IsWhite(s[Len(s)]) THEN TrimEnd(SubSeq(s, 1, Len(s) - 1)) ELSE s
\* String.prototype.trim
Trim(s) == TrimEnd(TrimStart(s))

\* topic.toLowerCase().trim()
NormalizeTopic(topic) == Trim(ToLowerCase(topic))

\* ------------------------------------------------------------- maps
EmptyMap == [k \in {} |-> 0]
MapPut(m, key, v) == [k \in (DOMAIN m) \cup {key} |-> IF k = key THEN v ELSE m[k]]
MapGet(m, key, default) == IF key \in DOMAIN m THEN m[key] ELSE default


\* A string is truthy unless empty; null and undefined are modelled as "".
Truthy(str) == str # ""

\* ------------------------------------------------------------- documents
\* classAnalytics/{classId}: snapshot.exists() is FALSE for NoDoc.
NoDoc == [exists |-> FALSE]

\* First-insert branch: every topic of the list gets the value 1.
InitialTopics(list) ==
  [k \in {NormalizeTopic(list[i]) : i \in 1..Len(list)} |-> 1]

\* forEach(topic => topics[key] = (topics[key] || 0) + 1)
RECURSIVE CountTopics(_, _)
CountTopics(topics, list) ==
  IF list = << >> THEN topics
  ELSE LET key == NormalizeTopic(Head(list))
       IN CountTopics(MapPut(topics, key, MapGet(topics, key, 0) + 1), Tail(list))

\* The new class document computed inside the transaction of
\* updateClassAnalytics from the document read (doc), at time t.
UpdateClassData(doc, gradeData, studentId, studentName, t) ==
  LET currentPercentage == CurrentPercentage(gradeData)
      list == gradeData.strugglingTopics
      named == Truthy(studentId) /\ Truthy(studentName)
  IN IF ~doc.exists
     THEN [ exists |-> TRUE,
            averageGrade |-> currentPercentage,
            totalAssignments |-> 1,
            lastUpdated |-> t,
            commonStrugglingTopics |->
              IF Len(list) > 0 THEN InitialTopics(list) ELSE EmptyMap,
            studentPerformances |->
              IF named
              THEN MapPut(EmptyMap, studentId,
                          [ name |-> studentName,
                            averageScore |-> currentPercentage,
                            totalAssignments |-> 1 ])
              ELSE EmptyMap ]
     ELSE LET oldTotal == FieldOr(doc, "totalAssignments", 0)
              oldAvg == OrZero(FieldOr(doc, "averageGrade", Zero))
              newTotal == oldTotal + 1
              newAvg == JsDivByInt(JsAdd(JsMulInt(oldAvg, oldTotal), currentPercentage), newTotal)
              performances == FieldOr(doc, "studentPerformances", EmptyMap)
              studentPerf == MapGet(performances, studentId,
                                    [ name |-> studentName,
                                      averageScore |-> Zero,
                                      totalAssignments |-> 0 ])
              sOldTotal == studentPerf.totalAssignments
              sOldAvg == OrZero(studentPerf.averageScore)
              sNewTotal == sOldTotal + 1
              sNewAvg == JsDivByInt(JsAdd(JsMulInt(sOldAvg, sOldTotal), currentPercentage), sNewTotal)
              newTopics ==
                IF Len(list) > 0
                THEN [commonStrugglingTopics |->
                        CountTopics(FieldOr(doc, "commonStrugglingTopics", EmptyMap), list)]
                ELSE EmptyMap
              newPerformances ==
                IF named
                THEN [studentPerformances |->
                        MapPut(performances, studentId,
                               [ name |-> studentName,
                                 averageScore |-> sNewAvg,
                                 totalAssignments |-> sNewTotal ])]
                ELSE EmptyMap
          IN Merge(Merge(Merge(doc, [ averageGrade |-> newAvg,
                                      totalAssignments |-> newTotal,
                                      lastUpdated |-> t ]),
                         newTopics),
                   newPerformances)

\* assignmentEntry of updateStudentAnalytics / recalculateStudentAnalytics.
AssignmentEntry(gradeData, stamp) ==
  [ assignmentId |-> gradeData.assignmentId,
    assignmentName |-> gradeData.assignmentName,
    score |-> FieldOr(gradeData, "overallScore", NotANumber),
    totalPoints |-> gradeData.totalPoints,
    gradedAt |-> stamp,
    strugglingTopics |-> gradeData.strugglingTopics ]

Includes(seq, x) == \E i \in 1..Len(seq) : seq[i] = x

\* First-insert branch of updateStudentAnalytics: {count: 1, assignments: [id]}.
InitialStudentTopics(list, assignmentId) ==
  [k \in {NormalizeTopic(list[i]) : i \in 1..Len(list)} |->
     [count |-> 1, assignments |-> <<assignmentId>>]]

\* forEach(topic => { count += 1; push the assignment id unless included }).
RECURSIVE CountStudentTopics(_, _, _)
CountStudentTopics(topics, list, assignmentId) ==
  IF list = << >> THEN topics
  ELSE LET key == NormalizeTopic(Head(list))
           old == MapGet(topics, key, [count |-> 0, assignments |-> << >>])
           new == [ count |-> old.count + 1,
                    assignments |-> IF Includes(old.assignments, assignmentId)
                                    THEN old.assignments
                                    ELSE Append(old.assignments, assignmentId) ]
       IN CountStudentTopics(MapPut(topics, key, new), Tail(list), assignmentId)

\* The new student document computed inside the transaction of
\* updateStudentAnalytics from the document read (doc), at time t.
UpdateStudentData(doc, gradeData, t) ==
  LET currentPercentage == CurrentPercentage(gradeData)
      list == gradeData.strugglingTopics
      assignmentEntry == AssignmentEntry(gradeData, t)
  IN IF ~doc.exists
     THEN [ exists |-> TRUE,
            averageScore |-> currentPercentage,
            totalAssignments |-> 1,
            lastUpdated |-> t,
            strugglingTopics |->
              IF Len(list) > 0
              THEN InitialStudentTopics(list, gradeData.assignmentId)
              ELSE EmptyMap,
            assignmentHistory |-> <<assignmentEntry>> ]
     ELSE LET oldTotal == FieldOr(doc, "totalAssignments", 0)
              oldAvg == OrZero(FieldOr(doc, "averageScore", Zero))
              newTotal == oldTotal + 1
              newAvg == JsDivByInt(JsAdd(JsMulInt(oldAvg, oldTotal), currentPercentage), newTotal)
              newTopics ==
                IF Len(list) > 0
                THEN [strugglingTopics |->
                        CountStudentTopics(FieldOr(doc, "strugglingTopics", EmptyMap), list,
                                           gradeData.assignmentId)]
                ELSE EmptyMap
          IN Merge(Merge(doc, [ averageScore |-> newAvg,
                                totalAssignments |-> newTotal,
                                lastUpdated |-> t,
                                assignmentHistory |->
                                  Append(FieldOr(doc, "assignmentHistory", << >>),
                                         assignmentEntry) ]),
                   newTopics)


\* getClassAnalytics: the data of the document, or null.
Null == [exists |-> FALSE, null |-> TRUE]
GetClassAnalytics(doc) == IF doc.exists THEN doc ELSE Null

\* ------------------------------------------------------------- grades
\* A document of the grades collection as saveGrade writes it.  The fields
\* no modelled code reads (submissionId, aiResultId, questions,
\* syncedToGoogleClassroom) are left out; an absent strugglingTopics field
\* is << >> (every reader uses `?.length` or `|| []`, which treat the two
\* alike); an absent deletedAt is -1.
GradeDoc(id, gradeData, stamp) ==
  [ id |-> id,
    classId |-> gradeData.classId,
    teacherId |-> gradeData.teacherId,
    studentId |-> gradeData.studentId,
    studentName |-> gradeData.studentName,
    assignmentId |-> gradeData.assignmentId,
    assignmentName |-> gradeData.assignmentName,
    overallScore |-> gradeData.overallScore,
    totalPoints |-> gradeData.totalPoints,
    strugglingTopics |-> gradeData.strugglingTopics,
    gradedAt |-> stamp,
    deleted |-> FALSE,
    deletedAt |-> -1 ]

\* updateDoc(gradeRef, {deleted: true, deletedAt: Date.now()})
DeleteGradeDoc(g, stamp) == [g EXCEPT !.deleted = TRUE, !.deletedAt = stamp]

\* The documents of the collection in document-id order, which is the order
\* of a query without orderBy.
RECURSIVE DocsFrom(_, _)
DocsFrom(gs, i) ==
  IF i > MaxGrades THEN << >>
  ELSE (IF i \in DOMAIN gs THEN <<gs[i]>> ELSE << >>) \o DocsFrom(gs, i + 1)

\* A query that would not leave the deleted grades out.
GetAllGradesForClass(gs, classId, teacherId) ==
  SelectSeq(DocsFrom(gs, 1),
            LAMBDA g : g.classId = classId /\ g.teacherId = teacherId)

GetActiveGradesForClass(gs, classId, teacherId) ==
  SelectSeq(DocsFrom(gs, 1),
            LAMBDA g : g.classId = classId /\ g.teacherId = teacherId /\ ~g.deleted)

\* ------------------------------------------------------------- recalculation
\* A recalculation that would remove the document when no grade is left.
ResetClassAnalyticsDeleted(t) == NoDoc

\* The document written when no grade is left.
ResetClassAnalytics(t) ==
  [ exists |-> TRUE,
    averageGrade |-> Zero,
    totalAssignments |-> 0,
    lastUpdated |-> t,
    commonStrugglingTopics |-> EmptyMap,
    studentPerformances |-> EmptyMap ]

\* The loop over the active grades: acc is
\* {totalPercentage, commonStrugglingTopics, studentPerformances}.
RECURSIVE FoldClassGrades(_, _)
FoldClassGrades(acc, gs) ==
  IF gs = << >> THEN acc
  ELSE LET grade == Head(gs)
           percentage == Percentage(grade.overallScore, grade.totalPoints)
           perf == MapGet(acc.studentPerformances, grade.studentId,
                          [ name |-> grade.studentName,
                            totalScore |-> Zero,
                            totalAssignments |-> 0 ])
       IN FoldClassGrades(
            [ totalPercentage |-> JsAdd(acc.totalPercentage, percentage),
              commonStrugglingTopics |->
                IF Len(grade.strugglingTopics) > 0
                THEN CountTopics(acc.commonStrugglingTopics, grade.strugglingTopics)
                ELSE acc.commonStrugglingTopics,
              studentPerformances |->
                IF Truthy(grade.studentId) /\ Truthy(grade.studentName)
                THEN MapPut(acc.studentPerformances, grade.studentId,
                            [ name |-> perf.name,
                              totalScore |-> JsAdd(perf.totalScore, percentage),
                              totalAssignments |-> perf.totalAssignments + 1 ])
                ELSE acc.studentPerformances ],
            Tail(gs))

\* A recalculation that would go on from the topics already stored.
ClassAccumulatorsStored ==
  [ totalPercentage |-> Zero,
    commonStrugglingTopics |->
      IF classAnalytics.exists THEN classAnalytics.commonStrugglingTopics ELSE EmptyMap,
    studentPerformances |-> EmptyMap ]

\* The accumulators the loop starts from.
ClassAccumulators ==
  [ totalPercentage |-> Zero,
    commonStrugglingTopics |-> EmptyMap,
    studentPerformances |-> EmptyMap ]

\* The document recalculateClassAnalytics writes for the active grades gs.
RecalculateClassData(gs, t) ==
  IF Len(gs) = 0 THEN ResetClassAnalytics(t)
  ELSE LET acc == FoldClassGrades(ClassAccumulators, gs)
       IN [ exists |-> TRUE,
            averageGrade |-> JsDivByInt(acc.totalPercentage, Len(gs)),
            totalAssignments |-> Len(gs),
            lastUpdated |-> t,
            commonStrugglingTopics |-> acc.commonStrugglingTopics,
            studentPerformances |->
              [ sid \in DOMAIN acc.studentPerformances |->
                  [ name |-> acc.studentPerformances[sid].name,
                    averageScore |->
                      JsDivByInt(acc.studentPerformances[sid].totalScore,
                                 acc.studentPerformances[sid].totalAssignments),
                    totalAssignments |-> acc.studentPerformances[sid].totalAssignments ] ] ]

\* The document written when the student has no grade left.
ResetStudentAnalytics(t) ==
  [ exists |-> TRUE,
    averageScore |-> Zero,
    totalAssignments |-> 0,
    lastUpdated |-> t,
    strugglingTopics |-> EmptyMap,
    assignmentHistory |-> << >> ]

\* Array.prototype.sort((a, b) => a.gradedAt - b.gradedAt): a stable sort.
\* The list in the reverse of the order of the query (newest grade first).
NewestFirst(seq) == [i \in 1..Len(seq) |-> seq[Len(seq) + 1 - i]]
RECURSIVE InsertByGradedAt(_, _)
InsertByGradedAt(sorted, e) ==
  IF sorted = << >> THEN <<e>>
  ELSE IF sorted[Len(sorted)].gradedAt <= e.gradedAt THEN Append(sorted, e)
  ELSE Append(InsertByGradedAt(SubSeq(sorted, 1, Len(sorted) - 1), e), sorted[Len(sorted)])
RECURSIVE SortByGradedAt(_)
SortByGradedAt(seq) ==
  IF seq = << >> THEN << >>
  ELSE InsertByGradedAt(SortByGradedAt(SubSeq(seq, 1, Len(seq) - 1)), seq[Len(seq)])

\* The loop over the student's grades: acc is
\* {totalPercentage, strugglingTopics, assignmentHistory}.
RECURSIVE FoldStudentGrades(_, _)
FoldStudentGrades(acc, gs) ==
  IF gs = << >> THEN acc
  ELSE LET grade == Head(gs)
           percentage == Percentage(grade.overallScore, grade.totalPoints)
       IN FoldStudentGrades(
            [ totalPercentage |-> JsAdd(acc.totalPercentage, percentage),
              assignmentHistory |->
                Append(acc.assignmentHistory, AssignmentEntry(grade, grade.gradedAt)),
              strugglingTopics |->
                IF Len(grade.strugglingTopics) > 0
                THEN CountStudentTopics(acc.strugglingTopics, grade.strugglingTopics,
                                        grade.assignmentId)
                ELSE acc.strugglingTopics ],
            Tail(gs))

\* The document recalculateStudentAnalytics writes, allGrades being the
\* active grades of the class.
RecalculateStudentData(allGrades, studentId, t) ==
  LET studentGrades == SelectSeq(allGrades, LAMBDA g : g.studentId = studentId)
  IN IF Len(studentGrades) = 0 THEN ResetStudentAnalytics(t)
     ELSE LET acc == FoldStudentGrades(
                       [ totalPercentage |-> Zero,
                         strugglingTopics |-> EmptyMap,
                         assignmentHistory |-> << >> ],
                       studentGrades)
          IN [ exists |-> TRUE,
               averageScore |-> JsDivByInt(acc.totalPercentage, Len(studentGrades)),
               totalAssignments |-> Len(studentGrades),
               lastUpdated |-> t,
               strugglingTopics |-> acc.strugglingTopics,
               assignmentHistory |-> SortByGradedAt(acc.assignmentHistory) ]


\* ------------------------------------------------------------- initial state
NoOrig == [valid |-> FALSE, log |-> << >>, doc |-> NoDoc]

InitStore ==
  /\ grades = EmptyMap
  /\ classAnalytics = NoDoc
  /\ studentAnalytics = [s \in Students |-> NoDoc]
  /\ now = 0
  /\ givenTopics = EmptyMap
  /\ hist = [base |-> "nodoc", log |-> << >>, orig |-> NoOrig]
  /\ lastOp = [op |-> "none", students |-> {}, rerun |-> FALSE]

\* ------------------------------------------------------------- calls in progress
Inserters == {"i1", "i2"}
Deleter == "d"
Procs == Inserters \cup {Deleter}

NoGradeData ==
  [ assignmentId |-> "", assignmentName |-> "", overallScore |-> 0,
    totalPoints |-> 0, strugglingTopics |-> << >> ]
IdleProc ==
  [ pc |-> "idle", student |-> "", gradeData |-> NoGradeData,
    snap |-> NoDoc, ver |-> 0, attempts |-> 0, retried |-> FALSE, scan |-> << >> ]
NoVersions == [d \in {"class"} \cup Students |-> 0]
NoSerial == [class |-> << >>, students |-> [s \in Students |-> << >>]]

\* The chat assistant is not in use.
NoSimilarity == [status |-> "none"]
NoCosine ==
  /\ vecA = << >>
  /\ vecB = << >>
  /\ similarity = NoSimilarity
NoRetrieval == [status |-> "idle", teacherId |-> ""]
\* let retrievedDocs = []; let contextString = 'No student data available yet. ...'
NoDataText ==
  <<"No student data available yet. Answer based on general teaching knowledge.">>
NoTurn ==
  /\ retrieval = NoRetrieval
  /\ retrievedDocs = << >>
  /\ contextString = NoDataText
NoError == [set |-> FALSE]
NoRejection == [cause |-> "none"]
NoRequest == [issued |-> FALSE]
\* No message has been sent yet.
IdleTurn ==
  /\ pc = "idle"
  /\ aborted = FALSE
  /\ error = NoError
  /\ rejection = NoRejection
  /\ request = NoRequest
  /\ parts = [stream |-> << >>, read |-> 0]
  /\ fullText = << >>
  /\ batchedText = << >>
  /\ timeoutId = FALSE
  /\ delivered = << >>
  /\ deliveredAtAbort = 0
  /\ abortController = FALSE
  /\ isSendingMessage = FALSE
  /\ stops = << >>
  /\ stopThrew = FALSE
  /\ messagesForAPI = << >>
  /\ isSearchingData = FALSE
  /\ searchEvents = << >>
  /\ toolCalls = << >>
  /\ generations = << >>
\* The index: student and lesson-plan documents are added, the class has
\* one document, which is replaced.
NoDocuments == [student |-> {}, class |-> [exists |-> FALSE], lessonPlan |-> {}]
\* createConversation: the document as it is created.
NewConversationTitle == "New Conversation"
CreatedConversation ==
  [title |-> NewConversationTitle, messages |-> << >>, createdAt |-> 0, updatedAt |-> 0]
ConvCallers == {"add1", "add2", "title", "delete"}
IdleConvCall == [pc |-> "idle", snapshot |-> CreatedConversation, message |-> "", title |-> ""]
NoConvLog == [stored |-> {}, added |-> {}, issued |-> 0, deleted |-> FALSE, overlapped |-> FALSE]
NoNaming == [pc |-> "idle"]
NoSession == [isSendingMessage |-> FALSE]
NoReader == [pc |-> "idle"]
\* No conversation is being named, no session of turns and no reader runs.
NoClientCalls ==
  /\ naming = NoNaming
  /\ session = NoSession
  /\ reader = NoReader
\* The conversation was created and no call on it is in progress.
NoConversationCalls ==
  /\ conversation = CreatedConversation
  /\ convCalls = [c \in ConvCallers |-> IdleConvCall]
  /\ convNow = 1
  /\ convLog = NoConvLog
NoIndexing ==
  /\ indexJobs = << >>
  /\ lessonPlans = << >>
  /\ ragLog = NoDocuments
  /\ reports = {}
  /\ NoConversationCalls
\* The analytics calls, the assistant, the index and the conversation are at
\* rest.
AtRest ==
  /\ procs = [p \in Procs |-> IdleProc]
  /\ version = NoVersions
  /\ serial = NoSerial
  /\ NoCosine
  /\ queryEmbedding = << >>
  /\ allDocuments = << >>
  /\ NoTurn
  /\ IdleTurn
  /\ messages = << >>
  /\ NoIndexing
NoChat ==
  /\ NoCosine
  /\ queryEmbedding = << >>
  /\ allDocuments = << >>
  /\ NoTurn
  /\ IdleTurn
  /\ messages = << >>
  /\ NoIndexing
  /\ NoClientCalls

\* No call is in progress: the operations run one at a time.
NoCalls ==
  /\ procs = [p \in Procs |-> IdleProc]
  /\ version = NoVersions
  /\ serial = NoSerial
  /\ NoChat

Init == InitStore /\ NoCalls

ActiveGrades == GetActiveGradesForClass(grades, ClassId, TeacherId)
ActiveIds == {ActiveGrades[i].id : i \in 1..Len(ActiveGrades)}

\* ------------------------------------------------------------- history
HistAfterInsert(entry) ==
  IF hist.base \in {"nodoc", "reset"}
  THEN [hist EXCEPT !.log = Append(@, entry)]
  ELSE hist

HistAfterRecalculate(active) ==
  IF Len(active) = 0
  THEN [ base |-> "reset", log |-> << >>,
         orig |-> IF hist.base = "nodoc" /\ hist.log # << >>
                  THEN [valid |-> TRUE, log |-> hist.log, doc |-> classAnalytics]
                  ELSE NoOrig ]
  ELSE [base |-> "recalc", log |-> << >>, orig |-> NoOrig]

\* Whether the operation that ran last wrote, by recalculation, the class
\* aggregate / the aggregate of student s.
ClassJustRecalculated == lastOp.op \in {"delete", "recalculateClass"}
StudentJustRecalculated(s) ==
  lastOp.op \in {"delete", "recalculateStudent"} /\ s \in lastOp.students

\* ------------------------------------------------------------- operations
\* saveGrade, then Promise.all([updateClassAnalytics, updateStudentAnalytics]).
\* Date.now() is a logical clock: saveGrade stamps the document at `now`,
\* the two transactions run one tick later, and the clock is then at the next
\* even value.  Deletions and recalculations read the clock and leave it
\* alone; Tick moves it after a recalculation.
\* addDoc's generated ids are taken in increasing order, so that a query
\* returns the documents in the order of their creation.  keepTopics tells
\* whether the saved document carries strugglingTopics.
SaveAndUpdate(s, a, r, keepTopics, track) ==
  /\ Cardinality(DOMAIN grades) < MaxGrades
  /\ LET id == Cardinality(DOMAIN grades) + 1
           tu == now + 1
           gradeData == [ assignmentId |-> a, assignmentName |-> a,
                          overallScore |-> r.overallScore,
                          totalPoints |-> r.totalPoints,
                          strugglingTopics |-> r.strugglingTopics ]
           saved == [ classId |-> ClassId, teacherId |-> TeacherId,
                      studentId |-> s, studentName |-> NameOf(s),
                      assignmentId |-> a, assignmentName |-> a,
                      overallScore |-> r.overallScore,
                      totalPoints |-> r.totalPoints,
                      strugglingTopics |-> IF keepTopics THEN r.strugglingTopics ELSE << >> ]
       IN /\ grades' = MapPut(grades, id, GradeDoc(id, saved, now))
          /\ classAnalytics' = UpdateClassData(classAnalytics, gradeData, s, NameOf(s), tu)
          /\ studentAnalytics' =
               [studentAnalytics EXCEPT ![s] = UpdateStudentData(@, gradeData, tu)]
          /\ now' = 2 * ((now + 2) \div 2)
          /\ IF track
             THEN /\ givenTopics' = MapPut(givenTopics, id, r.strugglingTopics)
                  /\ hist' = HistAfterInsert([gradeData |-> gradeData, studentId |-> s,
                                              studentName |-> NameOf(s)])
             ELSE UNCHANGED <<givenTopics, hist>>
          /\ lastOp' = [op |-> "save", students |-> {s}, rerun |-> FALSE]
          /\ UNCHANGED <<assistantVars, clientVars, procs, version, serial>>

\* The handler waits for the indexing before it reports.
IndexingAwaited == TRUE
\* indexGradeForRAG({...}).catch(...): the promise is not awaited.
AwaitsIndexing == FALSE

\* indexGradeForRAG up to its first await: the student summary is made and
\* generateEmbedding is called.
StartedJob(id, s, updatedAt) ==
  [ at |-> "embedStudent", id |-> id, studentId |-> s, updatedAt |-> updatedAt,
    before |-> classAnalytics, classAnalytics |-> NoDoc, countsGrade |-> FALSE ]
Report(op, id, result) == [op |-> op, id |-> id, result |-> result]

\* handleSaveGrades: the document passed to saveGrade has no strugglingTopics;
\* after the two updates indexGradeForRAG is called and success is reported.
SaveGrades(results) ==
  /\ \E sub \in Submissions, r \in results :
       SaveAndUpdate(sub[1], sub[2], r, FALSE, TRUE)
         /\ indexJobs' = Append(indexJobs, StartedJob(Len(indexJobs) + 1, sub[1], now + 1))
  /\ reports' = IF AwaitsIndexing
                THEN reports
                ELSE reports \cup {Report("save", Len(indexJobs) + 1, "success")}
  /\ UNCHANGED <<lessonPlans, ragLog>>
HandleSaveGrades == SaveGrades(GradingResults)

\* The documents of the deleted grades are taken out of the index.
DeletedRemoved(log, sel) == [log EXCEPT !.student = @ \ sel]
\* handleDeleteSelectedGrades calls deleteGrade and the two recalculations and
\* nothing that writes the semantic documents.
RagDocumentsAfterDelete(log, sel) == log

\* handleDeleteSelectedGrades: soft-delete the selected grades, recalculate
\* the class, then every affected student.
DeleteAndRecalculate(track) ==
  \E sel \in (SUBSET ActiveIds) \ {{}} :
      LET tc == now
          ts == now
          affectedStudentIds == {grades[id].studentId : id \in sel}
          after == [id \in DOMAIN grades |->
                      IF id \in sel THEN DeleteGradeDoc(grades[id], now) ELSE grades[id]]
          active == GetActiveGradesForClass(after, ClassId, TeacherId)
      IN /\ grades' = after
         /\ classAnalytics' = RecalculateClassData(active, tc)
         /\ studentAnalytics' =
              [s \in Students |->
                 IF s \in affectedStudentIds
                 THEN RecalculateStudentData(active, s, ts)
                 ELSE studentAnalytics[s]]
         /\ hist' = IF track THEN HistAfterRecalculate(active) ELSE hist
         /\ lastOp' = [op |-> "delete", students |-> affectedStudentIds, rerun |-> FALSE]
         /\ ragLog' = RagDocumentsAfterDelete(ragLog, sel)
         /\ UNCHANGED <<assistantVars, clientVars, indexJobs, lessonPlans, reports,
                        now, givenTopics, procs, version, serial>>

HandleDeleteSelectedGrades == DeleteAndRecalculate(TRUE)

Next == HandleSaveGrades \/ HandleDeleteSelectedGrades

\* The program: grades are saved and deleted through the two handlers, one
\* operation at a time.
Spec == Init /\ [][Next]_vars


\* ------------------------------------------------------------- firebase.js driven directly
\* The grade records of the data model carry their strugglingTopics: saveGrade
\* is given the whole gradeData, then both aggregates are updated.
InsertGrade ==
  \E sub \in Submissions, r \in GradingResults :
    SaveAndUpdate(sub[1], sub[2], r, TRUE, FALSE) /\ UNCHANGED indexVars

\* recalculateClassAnalytics, run a second time: right after an operation
\* that recalculated the class aggregate.
RecalculateClassAnalytics ==
  /\ ClassJustRecalculated
  /\ classAnalytics' = RecalculateClassData(ActiveGrades, now)
  /\ lastOp' = [op |-> "recalculateClass", students |-> {}, rerun |-> ClassJustRecalculated]
  /\ UNCHANGED <<chatVars, grades, studentAnalytics, now, givenTopics, hist, procs, version, serial>>

\* recalculateStudentAnalytics, run a second time: right after an operation
\* that recalculated the aggregate of that student.
RecalculateStudentAnalytics ==
  \E s \in Students :
    /\ StudentJustRecalculated(s)
    /\ studentAnalytics' =
         [studentAnalytics EXCEPT ![s] = RecalculateStudentData(ActiveGrades, s, now)]
    /\ lastOp' = [op |-> "recalculateStudent", students |-> {s},
                   rerun |-> StudentJustRecalculated(s)]
    /\ UNCHANGED <<chatVars, grades, classAnalytics, now, givenTopics, hist, procs, version, serial>>

\* deleteGrade for each selected grade, then the recalculations.
DeleteThenRecalculate == DeleteAndRecalculate(FALSE)

\* Time passes after a recalculation (at most once between two saves).
Tick ==
  /\ lastOp.op \in {"delete", "recalculateClass", "recalculateStudent"}
  /\ now % 2 = 0
  /\ now' = now + 1
  /\ UNCHANGED <<chatVars, grades, classAnalytics, studentAnalytics, givenTopics, hist, lastOp,
                 procs, version, serial>>

NextApi ==
  \/ InsertGrade
  \/ DeleteThenRecalculate
  \/ RecalculateClassAnalytics
  \/ RecalculateStudentAnalytics
  \/ Tick

\* The functions of firebase.js applied to grade records that carry their
\* topics, each recalculation being run again after it has run.
SpecApi == Init /\ [][NextApi]_vars

\* ------------------------------------------------------------- concurrent calls
\* Saves (handleSaveGrades) and a deletion (handleDeleteSelectedGrades of one
\* grade) run at once, from several pages or devices of the teacher.
\* Each step is what a call does between two awaits.  runTransaction reads
\* the document, computes the new one and commits it if the document has not
\* been written since the read; otherwise it runs the update function again,
\* up to MaxAttempts times (runTransaction is called without options: the
\* SDK's default).  setDoc and updateDoc write unconditionally.
MaxAttempts == 5

\* The commit precondition of a transaction.
VersionIgnored(read, current) == TRUE
VersionMatches(read, current) == read = current

\* The class holds one grade already, saved by handleSaveGrades.
SeedResult == [overallScore |-> 9, totalPoints |-> 10, strugglingTopics |-> <<TopicFr>>]
SeedGradeData ==
  [ assignmentId |-> "a1", assignmentName |-> "a1",
    overallScore |-> SeedResult.overallScore, totalPoints |-> SeedResult.totalPoints,
    strugglingTopics |-> SeedResult.strugglingTopics ]
SeedClassAnalytics == UpdateClassData(NoDoc, SeedGradeData, "s1", NameOf("s1"), 1)
SeedStudentAnalytics ==
  [s \in Students |-> IF s = "s1" THEN UpdateStudentData(NoDoc, SeedGradeData, 1) ELSE NoDoc]
SeededStore ==
  /\ grades = MapPut(EmptyMap, 1,
                     GradeDoc(1, [ classId |-> ClassId, teacherId |-> TeacherId,
                                   studentId |-> "s1", studentName |-> NameOf("s1"),
                                   assignmentId |-> "a1", assignmentName |-> "a1",
                                   overallScore |-> SeedResult.overallScore,
                                   totalPoints |-> SeedResult.totalPoints,
                                   strugglingTopics |-> << >> ], 0))
  /\ classAnalytics = SeedClassAnalytics
  /\ studentAnalytics = SeedStudentAnalytics
  /\ now = 2
  /\ givenTopics = MapPut(EmptyMap, 1, SeedResult.strugglingTopics)
  /\ hist = [ base |-> "nodoc",
              log |-> << [ gradeData |-> SeedGradeData, studentId |-> "s1",
                           studentName |-> NameOf("s1") ] >>,
              orig |-> NoOrig ]
  /\ lastOp = [op |-> "save", students |-> {"s1"}, rerun |-> FALSE]

\* The class is new, or holds one grade.
InitConc == (InitStore \/ SeededStore) /\ NoCalls

\* The aggregates before the concurrent calls (which leave hist alone).
SeedClass == IF hist.log # << >> THEN SeedClassAnalytics ELSE NoDoc
SeedStudent(s) == IF hist.log # << >> THEN SeedStudentAnalytics[s] ELSE NoDoc

\* saveGrade of handleSaveGrades.
ConcSaveGrade(p) ==
  /\ procs[p].pc = "idle"
  /\ Cardinality(DOMAIN grades) < MaxGrades
  /\ \E sub \in Submissions, r \in GradingResults :
       LET id == Cardinality(DOMAIN grades) + 1
           saved == [ classId |-> ClassId, teacherId |-> TeacherId,
                      studentId |-> sub[1], studentName |-> NameOf(sub[1]),
                      assignmentId |-> sub[2], assignmentName |-> sub[2],
                      overallScore |-> r.overallScore,
                      totalPoints |-> r.totalPoints,
                      strugglingTopics |-> << >> ]
       IN /\ grades' = MapPut(grades, id, GradeDoc(id, saved, now))
          /\ givenTopics' = MapPut(givenTopics, id, r.strugglingTopics)
          /\ procs' = [procs EXCEPT ![p] =
               [ IdleProc EXCEPT
                   !.pc = "classGet", !.student = sub[1],
                   !.gradeData = [ assignmentId |-> sub[2], assignmentName |-> sub[2],
                                   overallScore |-> r.overallScore,
                                   totalPoints |-> r.totalPoints,
                                   strugglingTopics |-> r.strugglingTopics ] ]]
  /\ now' = now + 1
  /\ UNCHANGED <<chatVars, classAnalytics, studentAnalytics, hist, lastOp, version, serial>>

\* updateClassAnalytics: transaction.get(classRef).
ClassGet(p) ==
  /\ procs[p].pc = "classGet"
  /\ procs' = [procs EXCEPT ![p].pc = "classSet",
                            ![p].snap = classAnalytics,
                            ![p].ver = version["class"]]
  /\ UNCHANGED <<chatVars, grades, classAnalytics, studentAnalytics, now, givenTopics, hist,
                 lastOp, version, serial>>

\* updateClassAnalytics: transaction.set(classRef, newData) and the commit.
ClassCommit(p) ==
  /\ procs[p].pc = "classSet"
  /\ IF VersionMatches(procs[p].ver, version["class"])
     THEN /\ classAnalytics' =
               UpdateClassData(procs[p].snap, procs[p].gradeData, procs[p].student,
                               NameOf(procs[p].student), now)
          /\ version' = [version EXCEPT !["class"] = @ + 1]
          /\ serial' = [serial EXCEPT !.class = Append(@, [proc |-> p, at |-> now])]
          /\ procs' = [procs EXCEPT ![p].pc = "studentGet", ![p].attempts = 0]
     ELSE /\ procs' = [procs EXCEPT
               ![p].pc = IF procs[p].attempts + 1 < MaxAttempts THEN "classGet" ELSE "failed",
               ![p].attempts = @ + 1,
               ![p].retried = TRUE]
          /\ UNCHANGED <<classAnalytics, version, serial>>
  /\ UNCHANGED <<chatVars, grades, studentAnalytics, now, givenTopics, hist, lastOp>>

\* updateStudentAnalytics: transaction.get(studentRef).
StudentGet(p) ==
  /\ procs[p].pc = "studentGet"
  /\ procs' = [procs EXCEPT ![p].pc = "studentSet",
                            ![p].snap = studentAnalytics[procs[p].student],
                            ![p].ver = version[procs[p].student]]
  /\ UNCHANGED <<chatVars, grades, classAnalytics, studentAnalytics, now, givenTopics, hist,
                 lastOp, version, serial>>

\* updateStudentAnalytics: transaction.set(studentRef, newData) and the commit.
StudentCommit(p) ==
  /\ procs[p].pc = "studentSet"
  /\ LET s == procs[p].student
     IN IF VersionMatches(procs[p].ver, version[s])
        THEN /\ studentAnalytics' =
                  [studentAnalytics EXCEPT ![s] =
                     UpdateStudentData(procs[p].snap, procs[p].gradeData, now)]
             /\ version' = [version EXCEPT ![s] = @ + 1]
             /\ serial' = [serial EXCEPT !.students[s] = Append(@, [proc |-> p, at |-> now])]
             /\ procs' = [procs EXCEPT ![p].pc = "done", ![p].snap = NoDoc]
        ELSE /\ procs' = [procs EXCEPT
                  ![p].pc = IF procs[p].attempts + 1 < MaxAttempts
                            THEN "studentGet" ELSE "failed",
                  ![p].attempts = @ + 1,
                  ![p].retried = TRUE]
             /\ UNCHANGED <<studentAnalytics, version, serial>>
  /\ UNCHANGED <<chatVars, grades, classAnalytics, now, givenTopics, hist, lastOp>>

\* deleteGrade of the selected grade.
ConcDeleteGrade ==
  /\ procs[Deleter].pc = "idle"
  /\ \E id \in ActiveIds :
       /\ grades' = [grades EXCEPT ![id] = DeleteGradeDoc(@, now)]
       /\ procs' = [procs EXCEPT ![Deleter] =
            [IdleProc EXCEPT !.pc = "classScan", !.student = grades[id].studentId]]
  /\ UNCHANGED <<chatVars, classAnalytics, studentAnalytics, now, givenTopics, hist, lastOp,
                 version, serial>>

\* recalculateClassAnalytics: getActiveGradesForClass.
ClassScan ==
  /\ procs[Deleter].pc = "classScan"
  /\ procs' = [procs EXCEPT ![Deleter].pc = "classWrite", ![Deleter].scan = ActiveGrades]
  /\ UNCHANGED <<chatVars, grades, classAnalytics, studentAnalytics, now, givenTopics, hist,
                 lastOp, version, serial>>

\* recalculateClassAnalytics: setDoc(classRef, ...).
ClassWrite ==
  /\ procs[Deleter].pc = "classWrite"
  /\ classAnalytics' = RecalculateClassData(procs[Deleter].scan, now)
  /\ version' = [version EXCEPT !["class"] = @ + 1]
  /\ procs' = [procs EXCEPT ![Deleter].pc = "studentScan", ![Deleter].scan = << >>]
  /\ UNCHANGED <<chatVars, grades, studentAnalytics, now, givenTopics, hist, lastOp, serial>>

\* recalculateStudentAnalytics: getActiveGradesForClass.
StudentScan ==
  /\ procs[Deleter].pc = "studentScan"
  /\ procs' = [procs EXCEPT ![Deleter].pc = "studentWrite", ![Deleter].scan = ActiveGrades]
  /\ UNCHANGED <<chatVars, grades, classAnalytics, studentAnalytics, now, givenTopics, hist,
                 lastOp, version, serial>>

\* recalculateStudentAnalytics: setDoc(studentRef, ...).
StudentWrite ==
  /\ procs[Deleter].pc = "studentWrite"
  /\ LET s == procs[Deleter].student
     IN /\ studentAnalytics' =
             [studentAnalytics EXCEPT ![s] = RecalculateStudentData(procs[Deleter].scan, s, now)]
        /\ version' = [version EXCEPT ![s] = @ + 1]
  /\ procs' = [procs EXCEPT ![Deleter].pc = "done", ![Deleter].scan = << >>]
  /\ UNCHANGED <<chatVars, grades, classAnalytics, now, givenTopics, hist, lastOp, serial>>

\* The steps of one save.
SaveSteps(p) ==
  ConcSaveGrade(p) \/ ClassGet(p) \/ ClassCommit(p) \/ StudentGet(p) \/ StudentCommit(p)

NextConc == \E p \in Inserters : SaveSteps(p)

\* Two saves on one class, interleaved.
SpecConc == InitConc /\ [][NextConc]_vars

NextRace ==
  \/ SaveSteps("i1")
  \/ ConcDeleteGrade
  \/ ClassScan
  \/ ClassWrite
  \/ StudentScan
  \/ StudentWrite

\* One save and one deletion on one class, interleaved.
SpecRace == InitConc /\ [][NextRace]_vars

\* ------------------------------------------------------------- expectations
\* The mean of the percentages (overallScore / totalPoints * 100) of a
\* non-empty sequence of grades, summed independently of the aggregates.
RECURSIVE SumPercentages(_)
SumPercentages(gs) ==
  IF gs = << >> THEN Zero
  ELSE JsAdd(SumPercentages(SubSeq(gs, 1, Len(gs) - 1)),
             Percentage(gs[Len(gs)].overallScore, gs[Len(gs)].totalPoints))
MeanPercentage(gs) == JsDivByInt(SumPercentages(gs), Len(gs))

ActiveGradesOf(s) == SelectSeq(ActiveGrades, LAMBDA g : g.studentId = s)

\* Every grade ever saved has totalPoints > 0.
PositiveTotals == \A id \in DOMAIN grades : grades[id].totalPoints > 0

\* The stored class aggregate agrees with the active grades.
AggregateMatchesActiveGrades ==
  classAnalytics.exists =>
    /\ classAnalytics.totalAssignments = Len(ActiveGrades)
    /\ Len(ActiveGrades) > 0 =>
         classAnalytics.averageGrade = MeanPercentage(ActiveGrades)
    /\ \A sid \in DOMAIN classAnalytics.studentPerformances :
         /\ Len(ActiveGradesOf(sid)) > 0
         /\ classAnalytics.studentPerformances[sid].averageScore =
              MeanPercentage(ActiveGradesOf(sid))

\* ------------------------------------------------------------- C1
\* C1: after any sequence of completed saves and deletions run one at a
\* time, the class aggregate has totalAssignments equal to the number of
\* active grades, averageGrade equal to the mean of their percentages, and
\* each studentPerformances[id].averageScore equal to the mean over that
\* student's active grades.
C1_AggregateInvariant == AggregateMatchesActiveGrades

\* The same, as long as every grade saved so far has totalPoints > 0.
C1_AggregateInvariantPositiveTotals ==
  PositiveTotals => AggregateMatchesActiveGrades

\* ------------------------------------------------------------- C2
\* C2: n >= 1 updateClassAnalytics calls into a class without an aggregate
\* leave averageGrade equal to the arithmetic mean of the n inserted
\* percentages and totalAssignments equal to n.
C2_IncrementalMean ==
  (hist.base = "nodoc" /\ hist.log # << >>) =>
    /\ classAnalytics.exists
    /\ classAnalytics.totalAssignments = Len(hist.log)
    /\ classAnalytics.averageGrade =
         MeanPercentage([i \in 1..Len(hist.log) |-> hist.log[i].gradeData])

\* The same, as long as every inserted grade has totalPoints > 0.
C2_IncrementalMeanPositiveTotals ==
  PositiveTotals => C2_IncrementalMean

\* ------------------------------------------------------------- C9
\* C9: a grade with totalPoints = 0 counts with percentage 0, so every
\* stored averageGrade / averageScore is a finite number in 0..100.
InRange(x) == IsFiniteNum(x) /\ NumLeq(Zero, x) /\ NumLeq(x, Num(100, 1))

C9_AveragesFinite ==
  /\ classAnalytics.exists =>
       /\ InRange(classAnalytics.averageGrade)
       /\ \A sid \in DOMAIN classAnalytics.studentPerformances :
            InRange(classAnalytics.studentPerformances[sid].averageScore)
  /\ \A s \in Students :
       studentAnalytics[s].exists => InRange(studentAnalytics[s].averageScore)

\* The same, as long as every grade saved so far has totalPoints > 0 and
\* overallScore <= totalPoints.
C9_AveragesFinitePositiveTotals ==
  PositiveTotals => C9_AveragesFinite

\* ------------------------------------------------------------- C6
SameAggregate(a, b) ==
  /\ a.averageGrade = b.averageGrade
  /\ a.totalAssignments = b.totalAssignments
  /\ a.commonStrugglingTopics = b.commonStrugglingTopics
  /\ a.studentPerformances = b.studentPerformances

\* The grades of the class have all been deleted and then inserted again,
\* the same grades in the same order.
Reinserted == hist.base = "reset" /\ hist.orig.valid /\ hist.log = hist.orig.log

\* C6: deleting every active grade and recalculating yields averageGrade 0
\* and totalAssignments 0; inserting the same grades again then produces the
\* aggregate the original insertion produced.
C6_DeleteAllThenReinsert ==
  /\ (lastOp.op = "delete" /\ Len(ActiveGrades) = 0) =>
       /\ classAnalytics.averageGrade = Zero
       /\ classAnalytics.totalAssignments = 0
  /\ Reinserted => SameAggregate(classAnalytics, hist.orig.doc)

\* No grade of the sequence names a topic twice (after normalisation).
DistinctTopics(log) ==
  \A i \in 1..Len(log) :
    \A j, k \in 1..Len(log[i].gradeData.strugglingTopics) :
      NormalizeTopic(log[i].gradeData.strugglingTopics[j]) =
        NormalizeTopic(log[i].gradeData.strugglingTopics[k]) => j = k

\* The same, as long as the first grade of the sequence names no topic twice.
C6_ReinsertDistinctTopics ==
  (Reinserted /\ DistinctTopics(hist.log)) =>
    SameAggregate(classAnalytics, hist.orig.doc)

\* ------------------------------------------------------------- C8
\* The topic counts of the grades gs, from the topics each was graded with.
RECURSIVE GivenTopicCounts(_)
GivenTopicCounts(gs) ==
  IF gs = << >> THEN EmptyMap
  ELSE CountTopics(GivenTopicCounts(SubSeq(gs, 1, Len(gs) - 1)),
                   givenTopics[gs[Len(gs)].id])
RECURSIVE GivenStudentTopicCounts(_)
GivenStudentTopicCounts(gs) ==
  IF gs = << >> THEN EmptyMap
  ELSE CountStudentTopics(GivenStudentTopicCounts(SubSeq(gs, 1, Len(gs) - 1)),
                          givenTopics[gs[Len(gs)].id], gs[Len(gs)].assignmentId)

\* C8: after handleDeleteSelectedGrades deleted some of the grades saved by
\* handleSaveGrades, commonStrugglingTopics and each affected student's
\* strugglingTopics are the topic counts of the remaining active grades.
C8_TopicsSurviveDelete ==
  (lastOp.op = "delete" /\ Len(ActiveGrades) > 0) =>
    /\ classAnalytics.commonStrugglingTopics = GivenTopicCounts(ActiveGrades)
    /\ \A s \in lastOp.students :
         Len(ActiveGradesOf(s)) > 0 =>
           studentAnalytics[s].strugglingTopics =
             GivenStudentTopicCounts(ActiveGradesOf(s))

\* ------------------------------------------------------------- C10
\* C10: when a deletion leaves no active grade, the class aggregate is
\* {averageGrade: 0, totalAssignments: 0, commonStrugglingTopics: {},
\* studentPerformances: {}}, every affected student's aggregate is the empty
\* student aggregate, and the documents exist (getClassAnalytics returns a
\* record).
C10_ResetNotDeleted ==
  (lastOp.op = "delete" /\ Len(ActiveGrades) = 0) =>
    /\ GetClassAnalytics(classAnalytics) # Null
    /\ GetClassAnalytics(classAnalytics).averageGrade = Zero
    /\ GetClassAnalytics(classAnalytics).totalAssignments = 0
    /\ GetClassAnalytics(classAnalytics).commonStrugglingTopics = EmptyMap
    /\ GetClassAnalytics(classAnalytics).studentPerformances = EmptyMap
    /\ \A s \in lastOp.students :
         /\ studentAnalytics[s].exists
         /\ studentAnalytics[s].averageScore = Zero
         /\ studentAnalytics[s].totalAssignments = 0
         /\ studentAnalytics[s].strugglingTopics = EmptyMap
         /\ studentAnalytics[s].assignmentHistory = << >>

\* Several grades with topics were saved and a deletion left none active.
C10_Witness ==
  /\ lastOp.op = "delete"
  /\ Len(ActiveGrades) = 0
  /\ Cardinality(DOMAIN grades) >= 2
  /\ Cardinality(lastOp.students) = 2

\* ------------------------------------------------------------- C5
SameStudentAggregate(a, b) ==
  /\ a.averageScore = b.averageScore
  /\ a.totalAssignments = b.totalAssignments
  /\ a.strugglingTopics = b.strugglingTopics
  /\ a.assignmentHistory = b.assignmentHistory

\* C5: recalculateClassAnalytics and recalculateStudentAnalytics, run a
\* second time with no change to the grades in between, leave the stored
\* aggregate unchanged in every field except lastUpdated.
C5_RecalculateIdempotent ==
  [][ /\ (lastOp'.op = "recalculateClass" /\ lastOp'.rerun) =>
           /\ classAnalytics.exists /\ classAnalytics'.exists
           /\ SameAggregate(classAnalytics, classAnalytics')
      /\ (lastOp'.op = "recalculateStudent" /\ lastOp'.rerun) =>
           \A s \in lastOp'.students :
             /\ studentAnalytics[s].exists /\ studentAnalytics'[s].exists
             /\ SameStudentAggregate(studentAnalytics[s], studentAnalytics'[s]) ]_vars

\* The class aggregate was recalculated a second time, later than the first
\* time, over several grades with topics.
C5_Witness ==
  /\ lastOp.op = "recalculateClass"
  /\ lastOp.rerun
  /\ now % 2 = 1
  /\ classAnalytics.lastUpdated = now
  /\ Len(ActiveGrades) >= 2
  /\ classAnalytics.commonStrugglingTopics # EmptyMap

\* ------------------------------------------------------------- C7
\* The active grades of the class, taken from the collection directly.
LiveIds ==
  {id \in DOMAIN grades :
     /\ grades[id].classId = ClassId
     /\ grades[id].teacherId = TeacherId
     /\ ~grades[id].deleted}

RECURSIVE SumPercentagesOver(_)
SumPercentagesOver(ids) ==
  IF ids = {} THEN Zero
  ELSE LET id == CHOOSE x \in ids : TRUE
       IN JsAdd(Percentage(grades[id].overallScore, grades[id].totalPoints),
                SumPercentagesOver(ids \ {id}))
MeanPercentageOver(ids) == JsDivByInt(SumPercentagesOver(ids), Cardinality(ids))

\* The occurrences of topic key among the grades ids: <<grade, position>>.
TopicOccurrences(ids, key) ==
  {occ \in UNION {{<<id, j>> : j \in 1..Len(grades[id].strugglingTopics)} : id \in ids} :
     NormalizeTopic(grades[occ[1]].strugglingTopics[occ[2]]) = key}
TopicKeys(ids) ==
  UNION {{NormalizeTopic(grades[id].strugglingTopics[j]) :
            j \in 1..Len(grades[id].strugglingTopics)} : id \in ids}

LiveIdsOf(s) == {id \in LiveIds : grades[id].studentId = s}

\* The class aggregate rebuilt from the active grades alone.
RebuiltFromActiveGrades(doc) ==
  /\ doc.exists
  /\ doc.totalAssignments = Cardinality(LiveIds)
  /\ doc.averageGrade = IF LiveIds = {} THEN Zero ELSE MeanPercentageOver(LiveIds)
  /\ DOMAIN doc.commonStrugglingTopics = TopicKeys(LiveIds)
  /\ \A key \in TopicKeys(LiveIds) :
       doc.commonStrugglingTopics[key] = Cardinality(TopicOccurrences(LiveIds, key))
  /\ DOMAIN doc.studentPerformances = {s \in Students : LiveIdsOf(s) # {}}
  /\ \A s \in DOMAIN doc.studentPerformances :
       /\ doc.studentPerformances[s].name = NameOf(s)
       /\ doc.studentPerformances[s].totalAssignments = Cardinality(LiveIdsOf(s))
       /\ doc.studentPerformances[s].averageScore = MeanPercentageOver(LiveIdsOf(s))

\* The example: grades of 90%, 70% and 80% inserted one after the other,
\* then the 70% grade deleted and the class recalculated.
ExampleGrade(id, score) ==
  GradeDoc(id, [ classId |-> ClassId, teacherId |-> TeacherId,
                 studentId |-> "s1", studentName |-> NameOf("s1"),
                 assignmentId |-> "a1", assignmentName |-> "a1",
                 overallScore |-> score, totalPoints |-> 10,
                 strugglingTopics |-> << >> ], id)
ExampleInserted ==
  UpdateClassData(
    UpdateClassData(
      UpdateClassData(NoDoc, ExampleGrade(1, 9), "s1", NameOf("s1"), 1),
      ExampleGrade(2, 7), "s1", NameOf("s1"), 2),
    ExampleGrade(3, 8), "s1", NameOf("s1"), 3)
ExampleRecalculated ==
  RecalculateClassData(
    GetActiveGradesForClass(
      [id \in 1..3 |-> IF id = 2 THEN DeleteGradeDoc(ExampleGrade(2, 7), 4)
                       ELSE ExampleGrade(id, IF id = 1 THEN 9 ELSE 8)],
      ClassId, TeacherId),
    4)

\* C7: after recalculateClassAnalytics the stored class aggregate is the one
\* rebuilt from the active grades alone (mean of their percentages, their
\* count, per-topic occurrence counts, per-student mean and count), whatever
\* was stored before; for grades of 90%, 70% and 80%, deleting the 70% grade
\* and recalculating gives averageGrade 85 and totalAssignments 2.
C7_RecalculateReplaces ==
  /\ lastOp.op \in {"delete", "recalculateClass"} =>
       RebuiltFromActiveGrades(classAnalytics)
  /\ ExampleInserted.averageGrade = Num(80, 1)
  /\ ExampleRecalculated.averageGrade = Num(85, 1)
  /\ ExampleRecalculated.totalAssignments = 2

\* A deletion left two active grades, one of them with topics, in a class
\* whose aggregate had been built by three inserts.
C7_Witness ==
  /\ lastOp.op = "delete"
  /\ Cardinality(LiveIds) = 2
  /\ Cardinality(DOMAIN grades) = 3
  /\ \E key \in TopicKeys(LiveIds) : Cardinality(TopicOccurrences(LiveIds, key)) = 2

\* ------------------------------------------------------------- C3
\* The updates of order applied one after the other, starting from doc.
RECURSIVE ReplayClass(_, _)
ReplayClass(doc, order) ==
  IF order = << >> THEN doc
  ELSE LET p == Head(order).proc
       IN ReplayClass(UpdateClassData(doc, procs[p].gradeData, procs[p].student,
                                      NameOf(procs[p].student), Head(order).at),
                      Tail(order))
RECURSIVE ReplayStudent(_, _)
ReplayStudent(doc, order) ==
  IF order = << >> THEN doc
  ELSE ReplayStudent(UpdateStudentData(doc, procs[Head(order).proc].gradeData, Head(order).at),
                     Tail(order))

InsertsDone == \A p \in Inserters : procs[p].pc = "done"
InsertersOf(s) == {p \in Inserters : procs[p].student = s}
EachOnce(order, ps) ==
  /\ Len(order) = Cardinality(ps)
  /\ {order[i].proc : i \in 1..Len(order)} = ps
TotalOf(doc) == IF doc.exists THEN doc.totalAssignments ELSE 0

\* C3: concurrent updateClassAnalytics / updateStudentAnalytics calls on one
\* class are serializable: the stored aggregate is always the one obtained by
\* applying the committed updates one after the other, and once all calls
\* have finished each insert is counted exactly once (totalAssignments is the
\* previous value plus the number of calls).
C3_Serializable ==
  /\ classAnalytics = ReplayClass(SeedClass, serial.class)
  /\ \A s \in Students :
       studentAnalytics[s] = ReplayStudent(SeedStudent(s), serial.students[s])
  /\ InsertsDone =>
       /\ EachOnce(serial.class, Inserters)
       /\ classAnalytics.totalAssignments = TotalOf(SeedClass) + Cardinality(Inserters)
       /\ \A s \in Students :
            /\ EachOnce(serial.students[s], InsertersOf(s))
            /\ TotalOf(studentAnalytics[s]) =
                 TotalOf(SeedStudent(s)) + Cardinality(InsertersOf(s))

\* Two saves for the same student raced on a class without aggregate: one of
\* them had to run its transaction again, and both have finished.
C3_Witness ==
  /\ InsertsDone
  /\ ~SeedClass.exists
  /\ procs["i1"].student = procs["i2"].student
  /\ \E p \in Inserters : procs[p].retried
  /\ \E p \in Inserters : Len(procs[p].gradeData.strugglingTopics) > 1

\* ------------------------------------------------------------- C4
\* C4: when a save runs concurrently with a delete-then-recalculate, the
\* aggregate stored once both have finished counts every active grade
\* exactly once, whatever the interleaving.
C4_RecalculationLastWriter ==
  (procs["i1"].pc = "done" /\ procs[Deleter].pc = "done") =>
    /\ classAnalytics.exists
    /\ classAnalytics.totalAssignments = Cardinality(LiveIds)

\* ------------------------------------------------------------- C11
MaxTopicLen == 3
TopicAlphabet == {"F", "f", "r", " "}
TopicStrings ==
  UNION {[1..n -> TopicAlphabet] : n \in 0..MaxTopicLen}

\* Written without the code's functions: no upper-case letter, no white
\* space at either end.
IsNormalized(k) ==
  /\ \A i \in 1..Len(k) : k[i] # "F"
  /\ k # << >> => (k[1] # " " /\ k[Len(k)] # " ")

\* Equal up to case and surrounding white space.
SameLetters(a, b) ==
  /\ Len(a) = Len(b)
  /\ \A i \in 1..Len(a) : a[i] = b[i] \/ {a[i], b[i]} = {"F", "f"}
Strip(k) ==
  IF k = << >> THEN k
  ELSE IF k[1] = " " THEN SubSeq(k, 2, Len(k))
  ELSE IF k[Len(k)] = " " THEN SubSeq(k, 1, Len(k) - 1)
  ELSE k
RECURSIVE Stripped(_)
Stripped(k) == IF Strip(k) = k THEN k ELSE Stripped(Strip(k))
DifferOnlyInCaseOrSpace(a, b) == SameLetters(Stripped(a), Stripped(b))

Fractions == <<"F", "r", "a", "c", "t", "i", "o", "n", "s">>
FractionsSp == <<"f", "r", "a", "c", "t", "i", "o", "n", "s", " ">>

NormalizeIdempotent ==
  /\ \A t \in TopicStrings :
       /\ NormalizeTopic(NormalizeTopic(t)) = NormalizeTopic(t)
       /\ IsNormalized(NormalizeTopic(t))
  /\ \A a, b \in TopicStrings :
       DifferOnlyInCaseOrSpace(a, b) => NormalizeTopic(a) = NormalizeTopic(b)
  /\ NormalizeTopic(Fractions) = NormalizeTopic(FractionsSp)

TopicKeySets ==
  {IF classAnalytics.exists THEN DOMAIN classAnalytics.commonStrugglingTopics ELSE {}}
  \cup {IF studentAnalytics[s].exists THEN DOMAIN studentAnalytics[s].strugglingTopics ELSE {}
          : s \in Students}

\* C11: normalising a topic twice gives the same key as normalising it once;
\* "Fractions" and "fractions " give the same key; every key of the class's
\* commonStrugglingTopics and of a student's strugglingTopics, written by an
\* insert or by a recalculation, is a normalised topic, and no two keys of a
\* map differ only in case or surrounding white space.
C11_TopicKeysNormalized ==
  /\ NormalizeIdempotent
  /\ \A keys \in TopicKeySets :
       /\ \A k \in keys : IsNormalized(k)
       /\ \A k1, k2 \in keys : DifferOnlyInCaseOrSpace(k1, k2) => k1 = k2

\* A recalculation has rebuilt the maps from a grade whose topics were given
\* as "Fr" and "fr ": both are counted under the one key "fr".
C11_Witness ==
  /\ lastOp.op = "recalculateClass"
  /\ classAnalytics.exists
  /\ NormalizeTopic(TopicFr) \in DOMAIN classAnalytics.commonStrugglingTopics
  /\ classAnalytics.commonStrugglingTopics[NormalizeTopic(TopicFr)] = 2
  /\ \E s \in Students :
       /\ studentAnalytics[s].exists
       /\ DOMAIN studentAnalytics[s].strugglingTopics = {<<"f", "r">>}


\* ------------------------------------------------------------- floating point
\* The numbers of cosineSimilarity are binary floating-point numbers: every
\* product, sum, square root and quotient is rounded to the nearest number
\* with a significand of Precision bits, ties to even.  JavaScript's numbers
\* have 53 bits; the model keeps the rounding and shortens the significand
\* so that the products of two significands stay below 2^31.  The exponent
\* is unbounded: no overflow, no underflow.
Precision == 13

RECURSIVE Pow2(_)
Pow2(k) == IF k = 0 THEN 1 ELSE 2 * Pow2(k - 1)

RECURSIVE BitLen(_)
BitLen(n) == IF n = 0 THEN 0 ELSE 1 + BitLen(n \div 2)

\* <<m, e>> stands for m * 2^e, with m odd; zero is <<0, 0>>.
RECURSIVE Canon(_, _)
Canon(m, e) ==
  IF m = 0 THEN <<0, 0>>
  ELSE IF m % 2 = 0 THEN Canon(m \div 2, e + 1)
  ELSE <<m, e>>

FZero == <<0, 0>>
FOne == <<1, 0>>
\* 0 / 0 and x / 0: not finite numbers.
FNaN == <<0, 1>>
FInfinity == <<0, 2>>
FNegInfinity == <<0, 3>>
FIsFinite(x) == x[1] # 0 \/ x = FZero
FromInt(i) == Canon(i, 0)
FNeg(x) == <<0 - x[1], x[2]>>

\* m * 2^e (m >= 0) rounded to Precision bits, ties to even.
RoundNat(m, e) ==
  LET s == BitLen(m) - Precision
  IN IF s <= 0 THEN Canon(m, e)
     ELSE LET q == m \div Pow2(s)
              r == m % Pow2(s)
              half == Pow2(s - 1)
              up == r > half \/ (r = half /\ q % 2 = 1)
          IN Canon(IF up THEN q + 1 ELSE q, e + s)
FRound(m, e) == IF m < 0 THEN FNeg(RoundNat(0 - m, e)) ELSE RoundNat(m, e)

\* x * y
FMul(x, y) == FRound(x[1] * y[1], x[2] + y[2])

\* x + y
FAdd(x, y) ==
  LET e == IF x[2] < y[2] THEN x[2] ELSE y[2]
  IN FRound(x[1] * Pow2(x[2] - e) + y[1] * Pow2(y[2] - e), e)

\* x < y
FLess(x, y) ==
  LET e == IF x[2] < y[2] THEN x[2] ELSE y[2]
  IN x[1] * Pow2(x[2] - e) < y[1] * Pow2(y[2] - e)

\* The largest f with f * f <= n, found bit by bit.
RECURSIVE IsqrtFrom(_, _, _)
IsqrtFrom(n, f, bit) ==
  IF bit = 0 THEN f
  ELSE IF (f + bit) * (f + bit) <= n THEN IsqrtFrom(n, f + bit, bit \div 2)
  ELSE IsqrtFrom(n, f, bit \div 2)

\* m * 2^e with e even and 4^(Precision-1) <= m < 4^Precision.
RECURSIVE SqrtScale(_, _)
SqrtScale(m, e) ==
  IF e % 2 # 0 THEN SqrtScale(m * 2, e - 1)
  ELSE IF m < Pow2(2 * Precision - 2) THEN SqrtScale(m * 4, e - 2)
  ELSE <<m, e>>

\* Math.sqrt(x) for x >= 0, correctly rounded.
FSqrt(x) ==
  IF x = FZero THEN FZero
  ELSE LET sc == SqrtScale(x[1], x[2])
           f == IsqrtFrom(sc[1], 0, Pow2(Precision - 1))
           up == sc[1] > f * f + f
       IN Canon(IF up THEN f + 1 ELSE f, sc[2] \div 2)

\* n * 2^e with 2^(Precision-1) <= n / d < 2^Precision.
RECURSIVE DivScale(_, _, _)
DivScale(n, d, e) ==
  IF n < d * Pow2(Precision - 1) THEN DivScale(n * 2, d, e - 1) ELSE <<n, e>>

\* x / y, correctly rounded.
FDiv(x, y) ==
  IF y = FZero
  THEN (IF x = FZero THEN FNaN ELSE IF x[1] > 0 THEN FInfinity ELSE FNegInfinity)
  ELSE IF x = FZero THEN FZero
  ELSE LET n == IF x[1] < 0 THEN 0 - x[1] ELSE x[1]
           d == IF y[1] < 0 THEN 0 - y[1] ELSE y[1]
           sc == DivScale(n, d, x[2] - y[2])
           q == sc[1] \div d
           r == sc[1] % d
           up == 2 * r > d \/ (2 * r = d /\ q % 2 = 1)
           mag == Canon(IF up THEN q + 1 ELSE q, sc[2])
       IN IF (x[1] < 0) # (y[1] < 0) THEN FNeg(mag) ELSE mag

\* ------------------------------------------------------------- cosineSimilarity
\* for (i = 0; i < vecA.length; i++) acc += a[i] * b[i], in that order.
RECURSIVE SumOfProducts(_, _, _)
SumOfProducts(a, b, n) ==
  IF n = 0 THEN FZero
  ELSE FAdd(SumOfProducts(a, b, n - 1), FMul(FromInt(a[n]), FromInt(b[n])))

\* The guard left out: the quotient is computed whatever the denominator.
DenominatorNeverZero(denominator) == FALSE
\* denominator === 0
DenominatorIsZero(denominator) == denominator = FZero

Throws == [status |-> "threw"]
Returns(v) == [status |-> "returned", value |-> v]

\* cosineSimilarity(vecA, vecB), vectors of integers.
CosineSimilarity(a, b) ==
  IF Len(a) # Len(b) THEN Throws
  ELSE LET dotProduct == SumOfProducts(a, b, Len(a))
           normA == SumOfProducts(a, a, Len(a))
           normB == SumOfProducts(b, b, Len(b))
           denominator == FMul(FSqrt(normA), FSqrt(normB))
       IN IF DenominatorIsZero(denominator) THEN Returns(FZero)
          ELSE Returns(FDiv(dotProduct, denominator))

\* The vectors: up to MaxDim components, each in Components.
MaxDim == 3
Components == {-2, -1, 0, 1, 2}
Vectors == UNION {[1..n -> Components] : n \in 0..MaxDim}

InitCosine ==
  /\ InitStore
  /\ procs = [p \in Procs |-> IdleProc]
  /\ version = NoVersions
  /\ serial = NoSerial
  /\ vecA \in Vectors
  /\ vecB \in Vectors
  /\ similarity = NoSimilarity
  /\ queryEmbedding = << >>
  /\ allDocuments = << >>
  /\ NoTurn
  /\ IdleTurn
  /\ messages = << >>
  /\ NoIndexing
  /\ NoClientCalls

CallCosineSimilarity ==
  /\ similarity = NoSimilarity
  /\ similarity' = CosineSimilarity(vecA, vecB)
  /\ UNCHANGED <<clientVars, storeVars, vecA, vecB, retrievalVars, turnVars,
                 controlVars, callVars, toolVars, indexVars>>

NextCosine == CallCosineSimilarity
SpecCosine == InitCosine /\ [][NextCosine]_vars

\* ------------------------------------------------------------- C15
IsZeroVector(v) == \A i \in 1..Len(v) : v[i] = 0

\* C15: cosineSimilarity(a, b) = cosineSimilarity(b, a); cosineSimilarity(a, a)
\* is 1 for a nonzero vector a; the value returned for two vectors of equal
\* length lies in [-1, 1].
C15_CosineContract ==
  similarity.status = "returned" =>
    /\ similarity = CosineSimilarity(vecB, vecA)
    /\ (vecA = vecB /\ ~IsZeroVector(vecA)) => similarity.value = FOne
    /\ ~FLess(similarity.value, FNeg(FOne))
    /\ ~FLess(FOne, similarity.value)

\* The part of C15 that the rounding leaves intact: symmetry.
CosineSymmetric ==
  similarity.status = "returned" => similarity = CosineSimilarity(vecB, vecA)

C16_WitnessEmpty ==
  /\ similarity.status = "returned"
  /\ vecA = << >>
  /\ vecB = << >>

\* ------------------------------------------------------------- searchSimilar
\* searchSimilar(queryEmbedding, allDocuments, 10)
TopK == 10
\* doc.score > 0.3
RelevanceThreshold == FDiv(FromInt(3), FromInt(10))

\* doc.embedding && Array.isArray(doc.embedding)
HasEmbedding(doc) == "embedding" \in DOMAIN doc

\* cosineSimilarity is a function of its arguments: its values on the
\* embeddings of the model are computed once.
KnownSimilarity ==
  {<<pair, CosineSimilarity(pair[1], pair[2])>> :
     pair \in {<<1, 0>>, <<0, 1>>, <<0, 0>>} \X {<<1, 1>>, <<1, 4>>}}
Similarity(a, b) ==
  IF \E known \in KnownSimilarity : known[1] = <<a, b>>
  THEN (CHOOSE known \in KnownSimilarity : known[1] = <<a, b>>)[2]
  ELSE CosineSimilarity(a, b)

\* The document with its score; threw says that cosineSimilarity threw.
ScoredDoc(doc, query) ==
  LET sim == Similarity(query, doc.embedding)
  IN [ content |-> doc.content, metadata |-> doc.metadata, type |-> doc.type,
       score |-> IF sim.status = "returned" THEN sim.value ELSE FNaN,
       threw |-> sim.status # "returned" ]

\* The sign of (a, b) => b.score - a.score.  The difference of two
\* floating-point numbers is zero only if they are equal, and has the sign
\* of their comparison.
CompareScores(a, b) ==
  IF FLess(a.score, b.score) THEN 1
  ELSE IF FLess(b.score, a.score) THEN -1
  ELSE 0

\* An unstable sort: x is put in front of the elements that compare equal.
KeepsPlaceIfGreater(y, x) == CompareScores(y, x) < 0
\* Array.prototype.sort is stable: y, which was in front of x, stays in
\* front of it unless the comparator puts it behind.
KeepsPlace(y, x) == CompareScores(y, x) <= 0

RECURSIVE InsertByScore(_, _)
InsertByScore(sorted, x) ==
  IF sorted = << >> THEN <<x>>
  ELSE IF KeepsPlace(Head(sorted), x)
       THEN <<Head(sorted)>> \o InsertByScore(Tail(sorted), x)
       ELSE <<x>> \o sorted

RECURSIVE SortByScore(_)
SortByScore(docs) ==
  IF docs = << >> THEN << >>
  ELSE InsertByScore(SortByScore(SubSeq(docs, 1, Len(docs) - 1)), docs[Len(docs)])

\* Array.prototype.slice(0, k)
Slice(seq, k) == SubSeq(seq, 1, IF k < Len(seq) THEN k ELSE Len(seq))

\* searchSimilar(queryEmbedding, documents, topK)
SearchSimilar(query, documents, topK) ==
  LET withEmbedding == SelectSeq(documents, HasEmbedding)
      scoredDocs == [i \in 1..Len(withEmbedding) |-> ScoredDoc(withEmbedding[i], query)]
  IN IF \E i \in 1..Len(scoredDocs) : scoredDocs[i].threw
     THEN [status |-> "threw", docs |-> << >>]
     ELSE [status |-> "returned", docs |-> Slice(SortByScore(scoredDocs), topK)]

\* ------------------------------------------------------------- context
NoRelevantText ==
  <<"No highly relevant student data found for this query. Answer based on general teaching knowledge.">>

\* The filter left out: every retrieved document is put in the context.
AnyScore(doc) == TRUE
\* doc.score > 0.3
IsRelevant(doc) == FLess(RelevanceThreshold, doc.score)

\* `[${idx + 1}] (${type})`, ` (${meta.className})` if there is one, ` ${doc.content}`
DocInfo(doc, idx) ==
  <<"[", ToString(idx), "]", " ", "(", IF doc.type # "" THEN doc.type ELSE "unknown", ")">>
  \o (IF doc.metadata.className # "" THEN <<" ", "(", doc.metadata.className, ")">> ELSE << >>)
  \o <<" ">> \o doc.content

\* lines.join('\n\n')
RECURSIVE Join(_)
Join(lines) ==
  IF lines = << >> THEN << >>
  ELSE IF Len(lines) = 1 THEN lines[1]
  ELSE lines[1] \o <<"\n", "\n">> \o Join(Tail(lines))

\* The fallback left out: a context without lines stays empty.
NeverBlank(text) == FALSE
\* !contextString.trim()
IsBlank(text) == Trim(text) = << >>

\* retrievedDocs.filter(...).map(...).join('\n\n'), then the fallback.
BuildContext(docs) ==
  LET relevant == SelectSeq(docs, IsRelevant)
      text == Join([i \in 1..Len(relevant) |-> DocInfo(relevant[i], i)])
  IN IF IsBlank(text) THEN NoRelevantText ELSE text

\* getRagDocuments(teacherId): the documents of the teacher.
GetRagDocuments(teacherId) == allDocuments

\* What the step leaves once searchSimilar has returned found, or thrown.
AfterSearch(found) ==
  IF found.status = "threw"
  THEN [status |-> "searchThrew", docs |-> << >>, text |-> NoDataText]
  ELSE IF Len(found.docs) = 0
  THEN [status |-> "done", docs |-> << >>, text |-> NoDataText]
  ELSE [status |-> "done", docs |-> found.docs, text |-> BuildContext(found.docs)]

\* The retrieval step of sendChatMessageWithRAG: what it leaves in
\* retrievedDocs and contextString.  outcome says which awaited call, if
\* any, throws.
RetrievalStep(teacherId, outcome) ==
  IF teacherId = ""
  THEN [status |-> "skipped", docs |-> << >>, text |-> NoDataText]
  ELSE IF outcome = "embeddingThrows"
  THEN [status |-> "embeddingThrew", docs |-> << >>, text |-> NoDataText]
  ELSE IF outcome = "fetchThrows"
  THEN [status |-> "fetchThrew", docs |-> << >>, text |-> NoDataText]
  ELSE LET documents == GetRagDocuments(teacherId)
       IN IF Len(documents) = 0
          THEN [status |-> "done", docs |-> << >>, text |-> NoDataText]
          ELSE AfterSearch(SearchSimilar(queryEmbedding, documents, TopK))

\* ------------------------------------------------------------- retrieval inputs
MaxDocs == 11
Letters == <<"a", "b", "c", "d", "e", "f", "g", "h", "i", "j", "k", "l", "m">>
LetterSet == {Letters[i] : i \in 1..Len(Letters)}

\* A student summary and a class summary, as indexGradeForRAG stores them.
StudentDoc == [embedding |-> <<1, 1>>, type |-> "student", className |-> "Math"]
ClassDoc == [embedding |-> <<1, 4>>, type |-> "", className |-> ""]
DocKinds == {StudentDoc, ClassDoc}

DocumentAt(i, kind) ==
  [ content |-> <<Letters[i]>>, embedding |-> kind.embedding, type |-> kind.type,
    metadata |-> [className |-> kind.className] ]
DocumentLists ==
  UNION {{[i \in 1..n |-> DocumentAt(i, kinds[i])] : kinds \in [1..n -> DocKinds]}
           : n \in 0..MaxDocs}
QueryEmbeddings == {<<1, 0>>, <<0, 1>>, <<0, 0>>}

InitRetrieve ==
  /\ InitStore
  /\ procs = [p \in Procs |-> IdleProc]
  /\ version = NoVersions
  /\ serial = NoSerial
  /\ NoCosine
  /\ queryEmbedding \in QueryEmbeddings
  /\ allDocuments \in DocumentLists
  /\ NoTurn
  /\ IdleTurn
  /\ messages = << >>
  /\ NoIndexing
  /\ NoClientCalls

Retrieve ==
  /\ retrieval.status = "idle"
  /\ \E teacherId \in {TeacherId, ""} :
       \E outcome \in {"ok", "embeddingThrows", "fetchThrows"} :
         \E step \in {RetrievalStep(teacherId, outcome)} :
            /\ retrieval' = [status |-> step.status, teacherId |-> teacherId]
            /\ retrievedDocs' = step.docs
            /\ contextString' = step.text
  /\ UNCHANGED <<storeVars, indexVars, clientVars,
                 cosineVars, queryEmbedding, allDocuments, turnVars,
                 controlVars, callVars, toolVars>>

NextRetrieve == Retrieve
SpecRetrieve == InitRetrieve /\ [][NextRetrieve]_vars

\* ------------------------------------------------------------- the turn
\* One turn of the assistant: handleSendMessage calls sendChatMessageWithRAG,
\* which retrieves, issues the generation request and reads the streamed
\* response, passing the text on in batches; handleStopMessage aborts.
UserMessage == [role |-> "user", content |-> <<"q">>]
Placeholder == [role |-> "assistant", content |-> << >>, toolCalls |-> << >>]

\* The errors that reject the call.  A message is a sequence of words.
AbortError ==
  [ cause |-> "abort", name |-> "AbortError",
    message |-> <<"signal", "is", "aborted", "without", "reason">> ]
\* new Error(`Gemini API error (${response.status}): ${errorText}`)
ApiError(errorText) ==
  [ cause |-> "api", name |-> "Error",
    message |-> <<"Gemini", "API", "error", "(", "status", ")", ":">> \o errorText ]
NetworkError ==
  [cause |-> "network", name |-> "TypeError", message |-> <<"Failed", "to", "fetch">>]
RetrievalError ==
  [cause |-> "retrieval", name |-> "Error", message |-> <<"Embedding", "API", "error">>]
\* The bodies of the error responses of the generation service.
ErrorTexts == {<<"quota", "exceeded">>, <<"The", "operation", "was", "aborted">>}

\* err.name !== 'AbortError' && !err.message?.includes('aborted')
ReportsError(err) == err.name # "AbortError" /\ ~Includes(err.message, "aborted")

\* finally { setIsSendingMessage(false); setAbortController(null); }
Finally ==
  /\ isSendingMessage' = FALSE
  /\ abortController' = FALSE
  /\ UNCHANGED <<stops, stopThrew>>

\* catch (err) { ... } finally { ... } of handleSendMessage.
Catch(err) ==
  /\ rejection' = err
  /\ pc' = "rejected"
  /\ Finally
  /\ IF ReportsError(err)
     THEN /\ error' = [set |-> TRUE, text |-> <<"Failed to send message:">> \o err.message]
          /\ messages' = SubSeq(messages, 1, Len(messages) - 1)
     ELSE UNCHANGED <<error, messages>>

\* The callback passed as onChunk: the chunk is appended to the last message
\* if that is the assistant's.
OnChunk(msgs, chunk) ==
  IF msgs # << >> /\ msgs[Len(msgs)].role = "assistant"
  THEN [msgs EXCEPT ![Len(msgs)].content = @ \o chunk]
  ELSE msgs

\* The chunk replaces the buffer instead of being added to it.
ReplaceChunk(batched, chunk) == chunk
\* batchedText += chunk
AppendChunk(batched, chunk) == batched \o chunk

\* flush() of createBatchedChunkHandler.
Flush ==
  /\ IF batchedText # << >>
     THEN /\ delivered' = Append(delivered, batchedText)
          /\ messages' = OnChunk(messages, batchedText)
          /\ batchedText' = << >>
     ELSE UNCHANGED <<delivered, messages, batchedText>>
  /\ timeoutId' = FALSE

\* The catch of the retrieval step throws the error on.
RethrowsFailure(status) == status \in {"embeddingThrew", "fetchThrew", "searchThrew"}
\* catch (err) { console.warn(...); onRetrievalComplete([]); }: it does not.
CatchRethrows(status) == FALSE

\* RAG_SYSTEM_PROMPT, with its two placeholders.
RagSystemPrompt ==
  <<"You are a teaching assistant for CheckMate", "CONTEXT DATA:", "{retrievedDocuments}",
    "CLASSES:", "{availableClasses}", "RESPONSE RULES", "TOOL: generate_lesson_plan">>
\* String.prototype.replace with a string pattern: the first occurrence.
RECURSIVE ReplaceFirst(_, _, _)
ReplaceFirst(text, pattern, replacement) ==
  IF text = << >> THEN << >>
  ELSE IF Head(text) = pattern THEN replacement \o Tail(text)
  ELSE <<Head(text)>> \o ReplaceFirst(Tail(text), pattern, replacement)
\* lines.join('\n')
RECURSIVE JoinLines(_)
JoinLines(lines) ==
  IF lines = << >> THEN << >>
  ELSE IF Len(lines) = 1 THEN lines[1]
  ELSE lines[1] \o <<"\n">> \o JoinLines(Tail(lines))
\* The courses of the teacher, and classesString.
Courses == <<[id |-> ClassId, name |-> "Math"]>>
ClassesString(courses) ==
  IF Len(courses) > 0
  THEN JoinLines([i \in 1..Len(courses) |->
                    <<"-", courses[i].name, "(classId:", courses[i].id, ")">>])
  ELSE <<"No classes available.">>
\* The prompt is built before the retrieval: with the initial context.
PromptOfInitialContext(context, classes) ==
  ReplaceFirst(ReplaceFirst(RagSystemPrompt, "{retrievedDocuments}", NoDataText),
               "{availableClasses}", classes)
\* RAG_SYSTEM_PROMPT.replace('{retrievedDocuments}', contextString)
\*                  .replace('{availableClasses}', classesString)
SystemPrompt(context, classes) ==
  ReplaceFirst(ReplaceFirst(RagSystemPrompt, "{retrievedDocuments}", context),
               "{availableClasses}", classes)
\* messages.map(msg => ({role: msg.role === 'assistant' ? 'model' : 'user',
\*                       parts: [{text: msg.content}]}))
Contents(msgs) ==
  [i \in 1..Len(msgs) |->
     [role |-> IF msgs[i].role = "assistant" THEN "model" ELSE "user",
      parts |-> <<[text |-> msgs[i].content]>>]]
\* updatedMessages.map(msg => ({role: msg.role, content: msg.content}))
ForAPI(msgs) == [i \in 1..Len(msgs) |-> [role |-> msgs[i].role, content |-> msgs[i].content]]

\* messages.filter(m => m.role === 'user').pop()
IsUserMessage(m) == m.role = "user"
HasUserMessage(msgs) == SelectSeq(msgs, IsUserMessage) # << >>
\* throw new Error('No user message found')
NoUserMessageError ==
  [cause |-> "noUserMessage", name |-> "Error", message |-> <<"No", "user", "message", "found">>]

\* The streamed responses: up to MaxParts parts, a part has a text or none.
MaxParts == 3
PartTexts == {<<"a">>, <<"b", "c">>, << >>}
\* A part has a text or a function call.  The calls of generate_lesson_plan:
\* one with classId and className, one without className.
NoCall == [name |-> ""]
CompleteCall ==
  [ name |-> "generate_lesson_plan",
    args |-> [classId |-> ClassId, className |-> "Math", focusTopics |-> <<"fractions">>] ]
IncompleteCall ==
  [ name |-> "generate_lesson_plan",
    args |-> [classId |-> "c2", className |-> "", focusTopics |-> << >>] ]
FunctionCalls == {CompleteCall, IncompleteCall}
Parts ==
  {[text |-> t, functionCall |-> NoCall] : t \in PartTexts}
    \cup {[text |-> << >>, functionCall |-> fc] : fc \in FunctionCalls}
Streams == UNION {[1..n -> Parts] : n \in 0..MaxParts}

\* toolCalls.push({type: fc.name, ...fc.args})
ToolCall(fc) ==
  [ type |-> fc.name, classId |-> fc.args.classId, className |-> fc.args.className,
    focusTopics |-> fc.args.focusTopics ]
IsGenerateCall(t) == t.type = "generate_lesson_plan"
\* toolCallsFromResponse.find(t => t.type === 'generate_lesson_plan'): the
\* first such call, in a list of one, or the empty list for undefined.
FindGenerateCall(calls) ==
  LET found == SelectSeq(calls, IsGenerateCall)
  IN IF found = << >> THEN << >> ELSE <<found[1]>>
\* generateCall && generateCall.classId && generateCall.className
Triggers(found) == found # << >> /\ found[1].classId # "" /\ found[1].className # ""
\* lastMessage.toolCalls = [generateCall], if the last message is the assistant's.
ShowGenerating(msgs, generateCall) ==
  IF msgs # << >> /\ msgs[Len(msgs)].role = "assistant"
  THEN [msgs EXCEPT ![Len(msgs)] =
          [role |-> @.role, content |-> @.content, toolCalls |-> <<generateCall>>]]
  ELSE msgs
\* The messages once flush() has passed the buffer on.
Flushed(msgs) == IF batchedText # << >> THEN OnChunk(msgs, batchedText) ELSE msgs

\* The conversation so far: empty, or an earlier exchange.
PriorUser == [role |-> "user", content |-> <<"p">>]
PriorAssistant == [role |-> "assistant", content |-> <<"r">>]
Histories == {<< >>, <<PriorUser, PriorAssistant>>}

ChatDocumentLists ==
  UNION {{[i \in 1..n |-> DocumentAt(i, kinds[i])] : kinds \in [1..n -> DocKinds]}
           : n \in 0..2}

InitChat ==
  /\ InitStore
  /\ procs = [p \in Procs |-> IdleProc]
  /\ version = NoVersions
  /\ serial = NoSerial
  /\ NoCosine
  /\ queryEmbedding \in {<<1, 0>>, <<0, 0>>}
  /\ allDocuments \in ChatDocumentLists
  /\ NoTurn
  /\ IdleTurn
  /\ messages \in Histories
  /\ NoIndexing
  /\ NoClientCalls

\* handleSendMessage up to the call of sendChatMessageWithRAG.
HandleSendMessage ==
  /\ pc = "idle"
  /\ ~isSendingMessage
  /\ isSendingMessage' = TRUE
  /\ abortController' = TRUE
  /\ UNCHANGED <<stops, stopThrew>>
  /\ pc' = "retrieving"
  /\ error' = NoError
  /\ aborted' = FALSE
  /\ messages' = messages \o <<UserMessage, Placeholder>>
  /\ messagesForAPI' = ForAPI(messages \o <<UserMessage>>)
  /\ UNCHANGED <<storeVars, indexVars, clientVars,
                 cosineVars, retrievalVars, rejection, request, parts,
                 fullText, batchedText, timeoutId, delivered, deliveredAtAbort,
                 isSearchingData, searchEvents, toolVars>>

\* sendChatMessageWithRAG is called, for the signed-in teacher or without
\* one: up to its first await.  Without a user message it throws; with a
\* teacherId it calls onRetrievalStart and awaits generateEmbedding; without
\* one it goes on to the request.
StartRetrieval ==
  /\ pc = "retrieving"
  /\ IF ~HasUserMessage(messagesForAPI)
     THEN /\ Catch(NoUserMessageError)
          /\ UNCHANGED <<retrieval, isSearchingData, searchEvents>>
     ELSE /\ \E teacherId \in {TeacherId, ""} :
               IF teacherId # ""
               THEN /\ retrieval' = [status |-> "started", teacherId |-> teacherId]
                    /\ isSearchingData' = TRUE
                    /\ searchEvents' = Append(searchEvents, "start")
                    /\ pc' = "searching"
               ELSE /\ retrieval' = [status |-> "skipped", teacherId |-> teacherId]
                    /\ pc' = "fetching"
                    /\ UNCHANGED <<isSearchingData, searchEvents>>
          /\ UNCHANGED <<rejection, error, messages, controlVars>>
  /\ UNCHANGED <<storeVars, indexVars, clientVars,
                 cosineVars, queryEmbedding, allDocuments, retrievedDocs,
                 contextString, aborted, request, parts, fullText, batchedText, timeoutId,
                 delivered, deliveredAtAbort, messagesForAPI, toolVars>>

\* The catch only logs the failure.
CatchOnlyLogs(status) == FALSE
\* onRetrievalComplete([]) of the catch runs when the try block threw, and
\* then only.
CatchCompletes(status) == status \in {"embeddingThrew", "fetchThrew", "searchThrew"}

\* sendChatMessageWithRAG: the rest of the retrieval step, with
\* onRetrievalComplete at its end or in its catch.
RetrieveForTurn ==
  /\ pc = "searching"
  /\ \E outcome \in {"ok", "embeddingThrows", "fetchThrows"} :
       \E step \in {RetrievalStep(retrieval.teacherId, outcome)} :
          /\ retrieval' = [retrieval EXCEPT !.status = step.status]
          /\ retrievedDocs' = step.docs
          /\ contextString' = step.text
          /\ \E completions \in
                  {(IF step.status = "done" THEN <<"complete">> ELSE << >>)
                     \o (IF CatchCompletes(step.status) THEN <<"complete">> ELSE << >>)} :
               /\ searchEvents' = searchEvents \o completions
               /\ isSearchingData' = IF completions # << >> THEN FALSE ELSE isSearchingData
          /\ IF CatchRethrows(step.status)
             THEN Catch(RetrievalError)
             ELSE /\ pc' = "fetching"
                  /\ UNCHANGED <<rejection, error, messages, controlVars>>
  /\ UNCHANGED <<storeVars, indexVars, clientVars,
                 cosineVars, queryEmbedding, allDocuments, aborted, request,
                 parts, fullText, batchedText, timeoutId, delivered, deliveredAtAbort,
                 messagesForAPI, toolVars>>

\* sendChatMessageWithRAG: await fetch(url, {..., signal}) and response.ok.
IssueRequest ==
  /\ pc = "fetching"
  /\ IF aborted
     THEN /\ Catch(AbortError)
          /\ UNCHANGED <<request, parts>>
     ELSE /\ request' = [ issued |-> TRUE, context |-> contextString,
                          systemInstruction |->
                            SystemPrompt(contextString, ClassesString(Courses)),
                          contents |-> Contents(messagesForAPI) ]
          /\ \/ /\ \E stream \in Streams : parts' = [stream |-> stream, read |-> 0]
                /\ pc' = "streaming"
                /\ UNCHANGED <<rejection, error, messages, controlVars>>
             \/ /\ \E errorText \in ErrorTexts : Catch(ApiError(errorText))
                /\ UNCHANGED parts
             \/ /\ Catch(NetworkError)
                /\ UNCHANGED parts
  /\ UNCHANGED <<storeVars, indexVars, clientVars,
                 cosineVars, retrievalVars, aborted, fullText, batchedText,
                 timeoutId, delivered, deliveredAtAbort, callVars, toolVars>>

\* The loop body: a part is read; its text, if any, is added to fullText
\* and handed to updateChunk, which restarts the timer.
ReceivePart ==
  /\ pc = "streaming"
  /\ ~aborted
  /\ parts.read < Len(parts.stream)
  /\ LET part == parts.stream[parts.read + 1]
     IN IF part.text # << >>
        THEN /\ fullText' = fullText \o part.text
             /\ batchedText' = AppendChunk(batchedText, part.text)
             /\ timeoutId' = TRUE
        ELSE UNCHANGED <<fullText, batchedText, timeoutId>>
  /\ LET part == parts.stream[parts.read + 1]
     IN toolCalls' = IF part.functionCall # NoCall
                     THEN Append(toolCalls, ToolCall(part.functionCall))
                     ELSE toolCalls
  /\ UNCHANGED generations
  /\ parts' = [parts EXCEPT !.read = @ + 1]
  /\ UNCHANGED <<storeVars, indexVars, clientVars,
                 cosineVars, retrievalVars, pc, aborted, messages, error,
                 rejection, request, delivered, deliveredAtAbort, controlVars, callVars>>

\* setTimeout(flush, CHUNK_BATCH_DELAY) fires.  The rejection of a read that
\* was pending when abort() was called is a microtask: it runs before any timer.
TimerFires ==
  /\ timeoutId
  /\ ~(aborted /\ pc = "streaming")
  /\ Flush
  /\ UNCHANGED <<storeVars, indexVars, clientVars,
                 cosineVars, retrievalVars, pc, aborted, error, rejection,
                 request, parts, fullText, deliveredAtAbort, controlVars, callVars, toolVars>>

\* reader.read() reports done: the last flush, the return, and the rest of
\* handleSendMessage: a generate_lesson_plan call with classId and className
\* is shown in the assistant's message and handleGenerateLessonPlanFromChat is
\* called.
StreamDone ==
  /\ pc = "streaming"
  /\ ~aborted
  /\ parts.read = Len(parts.stream)
  /\ delivered' = IF batchedText # << >> THEN Append(delivered, batchedText) ELSE delivered
  /\ batchedText' = << >>
  /\ timeoutId' = FALSE
  /\ \E found \in {FindGenerateCall(toolCalls)} :
       IF Triggers(found)
       THEN /\ messages' = ShowGenerating(Flushed(messages), found[1])
            /\ generations' =
                 Append(generations,
                        [ classId |-> found[1].classId, className |-> found[1].className,
                          focusTopics |-> found[1].focusTopics ])
       ELSE /\ messages' = Flushed(messages)
            /\ UNCHANGED generations
  /\ pc' = "completed"
  /\ Finally
  /\ UNCHANGED <<storeVars, indexVars, clientVars,
                 cosineVars, retrievalVars, aborted, error, rejection,
                 request, parts, fullText, deliveredAtAbort, callVars, toolCalls>>

\* reader.read() rejects: the connection is lost.
StreamFails ==
  /\ pc = "streaming"
  /\ ~aborted
  /\ Catch(NetworkError)
  /\ UNCHANGED <<storeVars, indexVars, clientVars,
                 cosineVars, retrievalVars, aborted, request, parts, fullText,
                 batchedText, timeoutId, delivered, deliveredAtAbort, callVars, toolVars>>

\* reader.read() rejects because the signal was aborted.
AbortRejects ==
  /\ pc = "streaming"
  /\ aborted
  /\ Catch(AbortError)
  /\ UNCHANGED <<storeVars, indexVars, clientVars,
                 cosineVars, retrievalVars, aborted, request, parts, fullText,
                 batchedText, timeoutId, delivered, deliveredAtAbort, callVars, toolVars>>

\* The test is left out: abort() is called on whatever the state holds.
AnyController(controller) == TRUE
\* if (abortController)
HasController(controller) == controller # FALSE

\* handleStopMessage, whenever the user calls it, at most MaxStops times.
\* abort() of a controller whose signal is aborted already does nothing;
\* abort() of null throws a TypeError and the handler ends there.
MaxStops == 2
HandleStopMessage ==
  /\ Len(stops) < MaxStops
  /\ stops' = Append(stops, pc)
  /\ IF HasController(abortController)
     THEN IF abortController
          THEN /\ aborted' = TRUE
               /\ deliveredAtAbort' = IF aborted THEN deliveredAtAbort ELSE Len(delivered)
               /\ isSendingMessage' = FALSE
               /\ abortController' = FALSE
               /\ UNCHANGED stopThrew
          ELSE /\ stopThrew' = TRUE
               /\ UNCHANGED <<aborted, deliveredAtAbort, isSendingMessage, abortController>>
     ELSE /\ isSendingMessage' = FALSE
          /\ abortController' = FALSE
          /\ UNCHANGED <<aborted, deliveredAtAbort, stopThrew>>
  /\ UNCHANGED <<storeVars, indexVars, clientVars,
                 cosineVars, retrievalVars, pc, messages, error, rejection,
                 request, parts, fullText, batchedText, timeoutId, delivered, callVars, toolVars>>

NextChat ==
  \/ HandleSendMessage
  \/ StartRetrieval
  \/ RetrieveForTurn
  \/ IssueRequest
  \/ ReceivePart
  \/ TimerFires
  \/ StreamDone
  \/ StreamFails
  \/ AbortRejects
  \/ HandleStopMessage
SpecChat == InitChat /\ [][NextChat]_vars

\* ------------------------------------------------------------- C12
\* The score of the i-th document of the teacher, and its place in the
\* ranking: one more than the number of documents that score higher, or
\* score the same and come earlier in the list.
ScoreOf(i) == Similarity(queryEmbedding, allDocuments[i].embedding).value
Scores == [i \in 1..Len(allDocuments) |-> ScoreOf(i)]
RankIn(scores, i) ==
  1 + Cardinality({j \in 1..Len(scores) :
                     FLess(scores[i], scores[j]) \/ (scores[j] = scores[i] /\ j < i)})
Ranking(scores) == [i \in 1..Len(scores) |-> RankIn(scores, i)]
ThreeTenths == FDiv(FromInt(3), FromInt(10))
\* The documents expected in the context, given every document's score and rank.
Expected(scores, rank) ==
  {i \in 1..Len(scores) : rank[i] <= 10 /\ FLess(ThreeTenths, scores[i])}

IsLetter(c) == c \in LetterSet
\* The contents of the documents that the context holds, in its order.
ContextLetters == SelectSeq(contextString, IsLetter)
Searched == retrieval.status = "done" /\ Len(allDocuments) > 0

\* Documents with the scores 0.9, 0.5, 0.25 and 0.1.
ExampleScored(i, n, d) ==
  [ content |-> <<Letters[i]>>, metadata |-> [className |-> ""], type |-> "student",
    score |-> FDiv(FromInt(n), FromInt(d)), threw |-> FALSE ]
ExampleRetrieved ==
  <<ExampleScored(1, 9, 10), ExampleScored(2, 1, 2), ExampleScored(3, 1, 4),
    ExampleScored(4, 1, 10)>>
ExampleContext == SelectSeq(BuildContext(ExampleRetrieved), IsLetter) = <<"a", "b">>

\* C12: the context holds exactly the documents that are among the 10
\* highest-scoring ones and score above 0.3, each once; for the scores
\* 0.9, 0.5, 0.25, 0.1 it holds the first two documents only.
C12_ContextIsTopTenAboveThreshold ==
  /\ ExampleContext
  /\ Searched =>
       \E scores \in {Scores} : \E rank \in {Ranking(scores)} :
       \E expected \in {Expected(scores, rank)} : \E letters \in {ContextLetters} :
         /\ {letters[p] : p \in 1..Len(letters)} = {Letters[i] : i \in expected}
         /\ Len(letters) = Cardinality(expected)

\* Eleven documents score above 0.3: ten are in the context, the eleventh,
\* cut off by the top 10, is not.
C12_Witness ==
  /\ Searched
  /\ Len(allDocuments) = 11
  /\ \E scores \in {Scores} : \E rank \in {Ranking(scores)} :
     \E letters \in {ContextLetters} :
       /\ \A i \in 1..11 : FLess(ThreeTenths, scores[i])
       /\ Len(letters) = 10
       /\ \E i \in 1..11 : rank[i] = 11 /\ \A p \in 1..10 : letters[p] # Letters[i]

\* A document among the top 10 scores 0.3 or less and is not in the context,
\* which holds other documents.
C12_WitnessBelowThreshold ==
  /\ Searched
  /\ \E scores \in {Scores} : \E rank \in {Ranking(scores)} :
     \E letters \in {ContextLetters} :
       /\ Len(letters) > 0
       /\ \E i \in 1..Len(allDocuments) :
            /\ rank[i] <= 10
            /\ ~FLess(ThreeTenths, scores[i])
            /\ \A p \in 1..Len(letters) : letters[p] # Letters[i]

\* ------------------------------------------------------------- C13
IsNumber(c) == c \in {"1", "2", "3", "4", "5", "6", "7", "8", "9", "10"}
\* The numbers of the lines of the context, in its order.
ContextNumbers == SelectSeq(contextString, IsNumber)
NoneExpected == \E scores \in {Scores} : Expected(scores, Ranking(scores)) = {}

\* C13: the context is never empty or blank.  Without documents it is the
\* 'No student data available yet' text; with documents none of whose top 10
\* scores above 0.3 it is the 'No highly relevant student data found' text;
\* otherwise it is the list of the surviving documents, numbered from 1.
C13_ContextNeverEmpty ==
  /\ contextString # << >>
  /\ \E p \in 1..Len(contextString) : contextString[p] \notin {" ", "\n"}
  /\ retrieval.status = "idle" => contextString = NoDataText
  /\ (retrieval.status = "done" /\ Len(allDocuments) = 0) => contextString = NoDataText
  /\ Searched =>
       \E scores \in {Scores} : \E expected \in {Expected(scores, Ranking(scores))} :
         IF expected = {}
         THEN contextString = NoRelevantText
         ELSE /\ ContextNumbers = [n \in 1..Cardinality(expected) |-> ToString(n)]
              /\ Len(ContextLetters) = Cardinality(expected)
              /\ SubSeq(contextString, 1, 3) = <<"[", "1", "]">>

\* The teacher has documents and none scores above 0.3: the context is the
\* second fallback text.
C13_Witness ==
  /\ Searched
  /\ NoneExpected
  /\ contextString = NoRelevantText

\* ------------------------------------------------------------- C14
\* C14: searchSimilar's result is a function of the document list and the
\* query embedding: its p-th element is the document of rank p, so the
\* result is sorted by descending score and documents of equal score are
\* in the order of the list; it has min(10, number of documents) elements.
C14_StableRanking ==
  Searched =>
    \E scores \in {Scores} : \E rank \in {Ranking(scores)} :
      /\ Len(retrievedDocs) = (IF Len(allDocuments) < 10 THEN Len(allDocuments) ELSE 10)
      /\ \A p \in 1..Len(retrievedDocs) :
           \E i \in 1..Len(allDocuments) :
             /\ rank[i] = p
             /\ retrievedDocs[p].content = allDocuments[i].content
             /\ retrievedDocs[p].score = scores[i]
      /\ \A p \in 1..Len(retrievedDocs) :
           p > 1 => ~FLess(retrievedDocs[p - 1].score, retrievedDocs[p].score)

\* Four documents, the second and fourth score higher than the first and
\* third: the result is second, fourth, first, third.
C14_Witness ==
  /\ Searched
  /\ Len(allDocuments) = 4
  /\ [p \in 1..Len(retrievedDocs) |-> retrievedDocs[p].content[1]] = <<"b", "d", "a", "c">>

\* ------------------------------------------------------------- C17
RetrievalFailed == retrieval.status \in {"embeddingThrew", "fetchThrew"}
NoDataLiteral ==
  <<"No student data available yet. Answer based on general teaching knowledge.">>

\* C17: when the embedding call or the document fetch throws, the turn goes
\* on: nothing is reported, the retrieved list is empty and the context is
\* the no-data text, the generation request is issued with that context
\* (unless the user aborts first), and the turn is rejected only by the
\* generation call or by an abort.
C17_RetrievalFailureRecovered ==
  RetrievalFailed =>
    /\ retrievedDocs = << >>
    /\ contextString = NoDataLiteral
    /\ pc \in {"fetching", "streaming", "completed", "rejected"}
    /\ pc = "fetching" => (~error.set /\ messages = messagesForAPI \o <<Placeholder>>)
    /\ pc \in {"streaming", "completed"} => request.issued
    /\ request.issued => request.context = NoDataLiteral
    /\ pc = "rejected" =>
         /\ rejection.cause \in {"abort", "api", "network"}
         /\ ~request.issued => rejection.cause = "abort"

\* The document fetch threw for a teacher who has documents; the request was
\* issued with the no-data text and the turn completed with a response.
C17_Witness ==
  /\ retrieval.status = "fetchThrew"
  /\ allDocuments # << >>
  /\ pc = "completed"
  /\ request.issued
  /\ request.context = NoDataLiteral
  /\ fullText # << >>
  /\ ~error.set

\* ------------------------------------------------------------- C18
RECURSIVE Flatten(_)
Flatten(chunks) == IF chunks = << >> THEN << >> ELSE Head(chunks) \o Flatten(Tail(chunks))
\* The texts of the parts of the response, one after the other.
TextOfStream == Flatten([i \in 1..Len(parts.stream) |-> parts.stream[i].text])

\* C18: when the turn has completed, the chunks passed to onChunk, put
\* together in the order they were passed, are the full response text, which
\* is the text of all parts in the order they arrived; nothing is left in
\* the buffer and no timer is pending.
C18_ChunksMakeFullText ==
  pc = "completed" =>
    /\ Flatten(delivered) = fullText
    /\ fullText = TextOfStream
    /\ batchedText = << >>
    /\ ~timeoutId

\* Two parts arrived within the delay and were passed on as one chunk when
\* the timer fired; a third part arrived later and was passed on by the
\* final flush.
C18_Witness ==
  /\ pc = "completed"
  /\ Len(parts.stream) = 3
  /\ delivered = << <<"a", "b", "c">>, <<"a">> >>

\* ------------------------------------------------------------- C19
\* C19: once the turn has been aborted, onChunk is not called again: the
\* number of chunks passed on stays what it was when abort() was called.
C19_NoChunkAfterAbort ==
  aborted => Len(delivered) = deliveredAtAbort

\* ------------------------------------------------------------- C20
PlaceholderKept ==
  /\ Len(messages) = Len(messagesForAPI) + 1
  /\ SubSeq(messages, 1, Len(messagesForAPI)) = messagesForAPI
  /\ messages[Len(messages)].role = "assistant"

\* C20: when the call is rejected because the signal was aborted, no error
\* is set and the assistant's message stays; when it is rejected for any
\* other reason, the error is set and the placeholder is removed.
C20_AbortedNotFailed ==
  pc = "rejected" =>
    IF rejection.cause = "abort"
    THEN ~error.set /\ PlaceholderKept
    ELSE error.set /\ messages = messagesForAPI

\* The half of C20 that holds: an abort is never reported as an error.
AbortNeverReported ==
  (pc = "rejected" /\ rejection.cause = "abort") => (~error.set /\ PlaceholderKept)

\* ------------------------------------------------------------- C21
Finished == pc \in {"completed", "rejected"}
StopCalled == stops' # stops
\* What the user sees of the turn and what the turn ended as.
TurnOutcome == <<pc, rejection, error, messages, aborted, deliveredAtAbort>>

\* C21: a call of handleStopMessage never throws; when the turn has
\* finished, or was aborted by an earlier call, the call leaves the error,
\* the messages, the state of the turn and its signal as they are.
C21_StopIsIdempotent ==
  [][StopCalled =>
       /\ ~stopThrew'
       /\ (Finished \/ aborted) => TurnOutcome' = TurnOutcome]_vars

\* handleStopMessage was called while the response was streaming and again
\* after the turn had ended as aborted.
C21_Witness ==
  /\ stops = <<"streaming", "rejected">>
  /\ pc = "rejected"
  /\ rejection.cause = "abort"
  /\ ~error.set
  /\ ~stopThrew

\* handleStopMessage was called twice after the turn had completed.
C21_WitnessCompleted ==
  /\ stops = <<"completed", "completed">>
  /\ pc = "completed"
  /\ ~stopThrew

\* ------------------------------------------------------------- C22
\* Idle, Retrieving, Generating, and the terminal states.
Phase(at) ==
  CASE at = "idle" -> 0
    [] at \in {"retrieving", "searching"} -> 1
    [] at \in {"fetching", "streaming"} -> 2
    [] at \in {"completed", "rejected"} -> 3
RetrievalFinished ==
  retrieval.status \in {"skipped", "done", "embeddingThrew", "fetchThrew", "searchThrew"}
Contains(text, part) ==
  \E i \in 0..(Len(text) - Len(part)) : SubSeq(text, i + 1, i + Len(part)) = part
\* The messages of the conversation without the placeholder of this turn.
HistoryLength == Len(messages) - (IF pc = "rejected" /\ error.set THEN 0 ELSE 1)
RequestWellFormed ==
  request.issued =>
    /\ RetrievalFinished
    /\ Phase(pc) >= 2
    /\ Contains(request.systemInstruction, contextString)
    /\ Len(request.contents) = HistoryLength
    /\ \A i \in 1..Len(request.contents) :
         /\ request.contents[i].parts = <<[text |-> messages[i].content]>>
         /\ request.contents[i].role = (IF messages[i].role = "user" THEN "user" ELSE "model")
    /\ request.contents[Len(request.contents)].parts = <<[text |-> UserMessage.content]>>

\* C22: the turn moves from each phase to the next only (Idle, Retrieving,
\* Generating, terminal) and never leaves a terminal state; the request is
\* issued in the Generating phase, after the retrieval step has finished, and
\* carries the context of that step in its system instruction and all
\* messages of the conversation, the new user message last.
C22_TurnStateMachine ==
  [][/\ Phase(pc') \in {Phase(pc), Phase(pc) + 1}
     /\ Finished => (pc' = pc /\ rejection' = rejection)
     /\ (request'.issued /\ ~request.issued) => (pc = "fetching" /\ RetrievalFinished)
     /\ RequestWellFormed']_vars

\* A turn after an earlier exchange completed with a context made of the
\* teacher's documents.
C22_Witness ==
  /\ pc = "completed"
  /\ retrieval.status = "done"
  /\ contextString \notin {NoDataText, NoRelevantText}
  /\ Contains(request.systemInstruction, contextString)
  /\ Len(request.contents) = 3
  /\ fullText # << >>

\* ------------------------------------------------------------- C23
\* The function calls of the response, in the order they arrived.
CallsOfStream ==
  SelectSeq([i \in 1..Len(parts.stream) |-> parts.stream[i].functionCall],
            LAMBDA fc : fc # NoCall)
IsCompleteGenerateCall(fc) ==
  fc.name = "generate_lesson_plan" /\ fc.args.classId # "" /\ fc.args.className # ""
CompleteCallsOfStream == SelectSeq(CallsOfStream, IsCompleteGenerateCall)
\* The function calls are returned in toolCalls, apart from the text.
CallsApartFromText ==
  /\ fullText = TextOfStream
  /\ Len(toolCalls) = Len(CallsOfStream)
  /\ \A i \in 1..Len(toolCalls) :
       /\ toolCalls[i].type = CallsOfStream[i].name
       /\ toolCalls[i].classId = CallsOfStream[i].args.classId
       /\ toolCalls[i].className = CallsOfStream[i].args.className

\* C23: when the turn has completed, the function calls of the response are
\* in toolCalls and not in the text; if one of them is a generate_lesson_plan
\* call with classId and className, handleGenerateLessonPlanFromChat was
\* called once, for the class of such a call; if none is, it was not called.
C23_CompleteCallTriggersOnce ==
  pc = "completed" =>
    /\ CallsApartFromText
    /\ IF CompleteCallsOfStream # << >>
       THEN /\ Len(generations) = 1
            /\ \E i \in 1..Len(CompleteCallsOfStream) :
                 /\ generations[1].classId = CompleteCallsOfStream[i].args.classId
                 /\ generations[1].className = CompleteCallsOfStream[i].args.className
       ELSE generations = << >>

\* What holds of the code: the generation is called once when the first
\* generate_lesson_plan call of the response has classId and className, and
\* is not called otherwise.
FirstCallDecides ==
  /\ pc # "completed" => generations = << >>
  /\ pc = "completed" =>
    /\ CallsApartFromText
    /\ Len(generations) <= 1
    /\ generations # << >> <=>
         /\ CallsOfStream # << >>
         /\ IsCompleteGenerateCall(CallsOfStream[1])
    /\ generations # << >> =>
         /\ generations[1].classId = CallsOfStream[1].args.classId
         /\ messages[Len(messages)].toolCalls = <<toolCalls[1]>>

\* ------------------------------------------------------------- C30
\* C30: in a turn with a teacher id onRetrievalStart is called once when
\* the retrieval step begins and onRetrievalComplete once when it ends,
\* whether it succeeded or failed, before the request is issued; in a turn
\* without one neither is called; the searching indicator is on during the
\* retrieval step only.
C30_SearchingBalanced ==
  /\ pc \in {"idle", "retrieving"} => (searchEvents = << >> /\ ~isSearchingData)
  /\ pc = "searching" => (searchEvents = <<"start">> /\ isSearchingData)
  /\ Phase(pc) >= 2 =>
       /\ ~isSearchingData
       /\ searchEvents = (IF retrieval.teacherId # "" THEN <<"start", "complete">> ELSE << >>)
  /\ request.issued => ~isSearchingData

\* The fetch of the documents threw: the indicator was switched on and off
\* again, and the turn went on to completion.
C30_Witness ==
  /\ retrieval.status = "fetchThrew"
  /\ searchEvents = <<"start", "complete">>
  /\ ~isSearchingData
  /\ pc = "completed"

\* The retrieval succeeded and the turn was then aborted.
C30_WitnessSuccess ==
  /\ retrieval.status = "done"
  /\ searchEvents = <<"start", "complete">>
  /\ pc = "rejected"
  /\ rejection.cause = "abort"

\* ------------------------------------------------------------- C26
\* sendChatMessageWithRAG called with any list of messages: with the user's
\* message, with an assistant's message only, with none.
ArgumentMessages == {<<UserMessage>>, <<PriorAssistant>>, << >>}
InitCall ==
  /\ InitStore
  /\ procs = [p \in Procs |-> IdleProc]
  /\ version = NoVersions
  /\ serial = NoSerial
  /\ NoCosine
  /\ queryEmbedding \in {<<1, 0>>, <<0, 0>>}
  /\ allDocuments \in ChatDocumentLists
  /\ NoTurn
  /\ aborted = FALSE
  /\ error = NoError
  /\ rejection = NoRejection
  /\ request = NoRequest
  /\ parts = [stream |-> << >>, read |-> 0]
  /\ fullText = << >>
  /\ batchedText = << >>
  /\ timeoutId = FALSE
  /\ delivered = << >>
  /\ deliveredAtAbort = 0
  /\ stops = << >>
  /\ stopThrew = FALSE
  /\ isSearchingData = FALSE
  /\ searchEvents = << >>
  /\ toolCalls = << >>
  /\ generations = << >>
  /\ pc = "retrieving"
  /\ abortController = TRUE
  /\ isSendingMessage = TRUE
  /\ messagesForAPI \in ArgumentMessages
  /\ messages = messagesForAPI \o <<Placeholder>>
  /\ NoIndexing
  /\ NoClientCalls
NextCall ==
  \/ StartRetrieval
  \/ RetrieveForTurn
  \/ IssueRequest
  \/ ReceivePart
  \/ TimerFires
  \/ StreamDone
  \/ StreamFails
  \/ AbortRejects
  \/ HandleStopMessage
SpecCall == InitCall /\ [][NextCall]_vars

Started == pc # "retrieving"
\* The half of C26 that holds: without a user message the call is rejected
\* at once, before the retrieval step and the request.
NoUserMessageFailsFast ==
  (Started /\ ~HasUserMessage(messagesForAPI)) =>
    /\ pc = "rejected"
    /\ rejection.cause = "noUserMessage"
    /\ error.set
    /\ retrieval.status = "idle"
    /\ searchEvents = << >>
    /\ ~request.issued
NoUserMessageRejected ==
  Started /\ messagesForAPI = <<PriorAssistant>> /\ pc = "rejected" /\ error.set

\* C26: a call without a user message, and a call without a teacher id, is
\* rejected with an error before the retrieval step is begun and before a
\* generation request is issued.
C26_MissingIdentifierFailsFast ==
  (Started /\ (~HasUserMessage(messagesForAPI) \/ retrieval.teacherId = "")) =>
    /\ pc = "rejected"
    /\ error.set
    /\ searchEvents = << >>
    /\ ~request.issued

\* ------------------------------------------------------------- the semantic index
\* The calls of indexGradeForRAG and indexLessonPlanForRAG run in the
\* background, one awaited call at a time, each of which can reject; what
\* they write is recorded in ragLog.
MaxFailures == 1
MaxPlans == 1
\* At most this many grades are saved while the index is followed, with
\* these grading results.
MaxIndexed == 2
IndexedResults ==
  { [overallScore |-> 9, totalPoints |-> 10, strugglingTopics |-> <<TopicFr, TopicFrSp>>],
    [overallScore |-> 7, totalPoints |-> 10, strugglingTopics |-> << >>] }
SaveGradesAndIndex ==
  /\ Len(indexJobs) < MaxIndexed
  /\ SaveGrades(IndexedResults)

\* handleSaveGrades when saveAIGradingResult rejects: nothing is stored, the
\* catch reports the error.
SaveGradesFails ==
  /\ Cardinality({r \in reports : r.result = "error"}) < MaxFailures
  /\ reports' = reports \cup {Report("save", 0, "error")}
  /\ UNCHANGED <<clientVars, storeVars, assistantVars, indexJobs, lessonPlans, ragLog>>

\* The promise of indexGradeForRAG settles: the .catch logs a rejection; a
\* handler that awaited it would report only now.
Settled(op, id, result) ==
  reports' = IF AwaitsIndexing THEN reports \cup {Report(op, id, result)} ELSE reports
Rejects(j) ==
  /\ indexJobs' = [indexJobs EXCEPT ![j].at = "failed"]
  /\ Settled("save", j, "error")
  /\ UNCHANGED ragLog

\* await generateEmbedding(studentSummary)
GenerateStudentEmbedding ==
  /\ \E j \in 1..Len(indexJobs) :
       /\ indexJobs[j].at = "embedStudent"
       /\ \/ /\ indexJobs' = [indexJobs EXCEPT ![j].at = "saveStudent"]
             /\ UNCHANGED <<ragLog, reports>>
          \/ Rejects(j)
  /\ UNCHANGED <<clientVars, storeVars, assistantVars, lessonPlans>>

\* await saveRagDocument(teacherId, {type: 'student', ...}, studentEmbedding)
SaveStudentRagDocument ==
  /\ \E j \in 1..Len(indexJobs) :
       /\ indexJobs[j].at = "saveStudent"
       /\ \/ /\ indexJobs' = [indexJobs EXCEPT ![j].at = "readClass"]
             /\ ragLog' = [ragLog EXCEPT !.student = @ \cup {j}]
             /\ UNCHANGED reports
          \/ Rejects(j)
  /\ UNCHANGED <<clientVars, storeVars, assistantVars, lessonPlans>>

\* The summary is made from the aggregate as it was before the save.
ClassBeforeSave(job) == GetClassAnalytics(job.before)
\* await getClassAnalytics(classId)
ClassForSummary(job) == GetClassAnalytics(classAnalytics)

\* const classAnalytics = await getClassAnalytics(classId); if (classAnalytics)
ReadClassForSummary ==
  /\ \E j \in 1..Len(indexJobs) :
       /\ indexJobs[j].at = "readClass"
       /\ \/ \E read \in {ClassForSummary(indexJobs[j])} :
               /\ indexJobs' =
                    [indexJobs EXCEPT ![j].at = IF read.exists THEN "embedClass" ELSE "done",
                                      ![j].classAnalytics = read,
                                      ![j].countsGrade = j \in ActiveIds]
               /\ IF read.exists THEN UNCHANGED reports ELSE Settled("save", j, "success")
               /\ UNCHANGED ragLog
          \/ Rejects(j)
  /\ UNCHANGED <<clientVars, storeVars, assistantVars, lessonPlans>>

\* await generateEmbedding(classSummary)
GenerateClassEmbedding ==
  /\ \E j \in 1..Len(indexJobs) :
       /\ indexJobs[j].at = "embedClass"
       /\ \/ /\ indexJobs' = [indexJobs EXCEPT ![j].at = "upsertClass"]
             /\ UNCHANGED <<ragLog, reports>>
          \/ Rejects(j)
  /\ UNCHANGED <<clientVars, storeVars, assistantVars, lessonPlans>>

\* await upsertClassRagDocument(teacherId, classId, classSummary, classEmbedding, {...})
UpsertClassRagDocument ==
  /\ \E j \in 1..Len(indexJobs) :
       /\ indexJobs[j].at = "upsertClass"
       /\ \/ /\ indexJobs' = [indexJobs EXCEPT ![j].at = "done"]
             /\ ragLog' =
                  [ragLog EXCEPT !.class =
                     [ exists |-> TRUE, job |-> j,
                       totalAssignments |-> indexJobs[j].classAnalytics.totalAssignments ]]
             /\ Settled("save", j, "success")
          \/ Rejects(j)
  /\ UNCHANGED <<clientVars, storeVars, assistantVars, lessonPlans>>

\* handleGenerateLessonPlanFromChat: the plan is generated and saved, then
\* indexLessonPlanForRAG is called and success is reported; or one of the
\* awaited calls rejects and the catch reports the error.
HandleGenerateLessonPlanFromChat ==
  /\ Len(lessonPlans) < MaxPlans
  /\ Cardinality({r \in reports : r.result = "error"}) < MaxFailures
  /\ \/ /\ lessonPlans' = Append(lessonPlans, [id |-> Len(lessonPlans) + 1, at |-> "embed"])
        /\ reports' = IF AwaitsIndexing
                      THEN reports
                      ELSE reports \cup {Report("plan", Len(lessonPlans) + 1, "success")}
     \/ /\ reports' = reports \cup {Report("plan", 0, "error")}
        /\ UNCHANGED lessonPlans
  /\ UNCHANGED <<clientVars, storeVars, assistantVars, indexJobs, ragLog>>

\* indexLessonPlanForRAG: await generateEmbedding(summary)
GenerateLessonPlanEmbedding ==
  /\ \E p \in 1..Len(lessonPlans) :
       /\ lessonPlans[p].at = "embed"
       /\ \/ /\ lessonPlans' = [lessonPlans EXCEPT ![p].at = "save"]
             /\ UNCHANGED reports
          \/ /\ lessonPlans' = [lessonPlans EXCEPT ![p].at = "failed"]
             /\ Settled("plan", p, "error")
  /\ UNCHANGED <<clientVars, storeVars, assistantVars, indexJobs, ragLog>>

\* indexLessonPlanForRAG: await saveLessonPlanRagDocument(...)
SaveLessonPlanRagDocument ==
  /\ \E p \in 1..Len(lessonPlans) :
       /\ lessonPlans[p].at = "save"
       /\ \/ /\ lessonPlans' = [lessonPlans EXCEPT ![p].at = "done"]
             /\ ragLog' = [ragLog EXCEPT !.lessonPlan = @ \cup {p}]
             /\ Settled("plan", p, "success")
          \/ /\ lessonPlans' = [lessonPlans EXCEPT ![p].at = "failed"]
             /\ Settled("plan", p, "error")
             /\ UNCHANGED ragLog
  /\ UNCHANGED <<clientVars, storeVars, assistantVars, indexJobs>>

NextIndex ==
  \/ SaveGradesAndIndex
  \/ SaveGradesFails
  \/ HandleDeleteSelectedGrades
  \/ GenerateStudentEmbedding
  \/ SaveStudentRagDocument
  \/ ReadClassForSummary
  \/ GenerateClassEmbedding
  \/ UpsertClassRagDocument
  \/ HandleGenerateLessonPlanFromChat
  \/ GenerateLessonPlanEmbedding
  \/ SaveLessonPlanRagDocument
SpecIndex == Init /\ [][NextIndex]_vars

\* ------------------------------------------------------------- C24
\* A step of a call of indexGradeForRAG or indexLessonPlanForRAG is taken.
IndexingStep ==
  \/ Len(indexJobs') = Len(indexJobs) /\ indexJobs' # indexJobs
  \/ Len(lessonPlans') = Len(lessonPlans) /\ lessonPlans' # lessonPlans
\* Every grade and plan that was saved was reported as saved, and is stored.
SavesReported ==
  /\ \A j \in 1..Len(indexJobs) :
       /\ Report("save", j, "success") \in reports
       /\ j \in DOMAIN grades
  /\ \A p \in 1..Len(lessonPlans) : Report("plan", p, "success") \in reports
  /\ \A r \in reports : r.result = "error" => r.id = 0

\* C24: a save reports success when it has stored its data, whatever the
\* indexing does later; a step of the indexing, failed or not, changes
\* neither the grades nor the aggregates nor the saved plans nor what was
\* reported, so a failed indexing leaves the save a success.
C24_IndexingFireAndForget ==
  [][/\ SavesReported'
     /\ IndexingStep =>
          /\ UNCHANGED <<grades, classAnalytics, studentAnalytics, reports>>
          /\ Len(lessonPlans') = Len(lessonPlans)]_vars

\* The embedding call of one save's indexing failed and the document write
\* of another's: both saves were reported as successes and their grades and
\* the aggregate are in place.
C24_Witness ==
  /\ Len(indexJobs) = 2
  /\ indexJobs[1].at = "failed"
  /\ indexJobs[2].at = "failed"
  /\ ragLog.student = {2}
  /\ reports = {Report("save", 1, "success"), Report("save", 2, "success")}
  /\ ActiveIds = {1, 2}
  /\ classAnalytics.exists
  /\ classAnalytics.totalAssignments = 2

\* Success was reported while the indexing had not got its first embedding.
C24_WitnessPending ==
  /\ Len(indexJobs) = 1
  /\ indexJobs[1].at = "embedStudent"
  /\ Report("save", 1, "success") \in reports

\* The indexing of a saved lesson plan failed; the plan was reported as generated.
C24_WitnessPlan ==
  /\ Len(lessonPlans) = 1
  /\ lessonPlans[1].at = "failed"
  /\ reports = {Report("plan", 1, "success")}

\* ------------------------------------------------------------- C25
\* The call has read the class aggregate.
HasReadClass(job) == job.classAnalytics # NoDoc
NoneDeleted == ActiveIds = DOMAIN grades

\* C25: the class aggregate that indexGradeForRAG reads was written by the
\* update of the same save or later: it exists, its lastUpdated is not
\* before that update, it counts the student of the grade unless the grade
\* had been deleted by then, and, when no grade was ever deleted, it counts
\* at least the grades saved up to this one; the student document of the
\* call is written before the aggregate is read and before the class
\* document is written.
C25_ClassSummaryIncludesGrade ==
  /\ \A j \in 1..Len(indexJobs) :
       /\ HasReadClass(indexJobs[j]) =>
            /\ indexJobs[j].classAnalytics.exists
            /\ indexJobs[j].classAnalytics.lastUpdated >= indexJobs[j].updatedAt
            /\ indexJobs[j].countsGrade =>
                 /\ indexJobs[j].studentId \in DOMAIN indexJobs[j].classAnalytics.studentPerformances
                 /\ indexJobs[j].classAnalytics.totalAssignments >= 1
            /\ NoneDeleted => indexJobs[j].classAnalytics.totalAssignments >= j
            /\ j \in ragLog.student
       /\ indexJobs[j].at \in {"embedClass", "upsertClass", "done"} => HasReadClass(indexJobs[j])
  /\ ragLog.class.exists =>
       /\ ragLog.class.job \in ragLog.student
       /\ indexJobs[ragLog.class.job].at = "done"
       /\ NoneDeleted => ragLog.class.totalAssignments >= ragLog.class.job

\* Two grades were saved and indexed: the class document written last is
\* that of the second save and counts both grades.
C25_Witness ==
  /\ Len(indexJobs) = 2
  /\ indexJobs[1].at = "done"
  /\ indexJobs[2].at = "done"
  /\ ragLog.student = {1, 2}
  /\ ragLog.class = [exists |-> TRUE, job |-> 2, totalAssignments |-> 2]
  /\ NoneDeleted

\* ------------------------------------------------------------- malformed input
\* updateClassAnalytics and updateStudentAnalytics called on stored aggregates
\* that lack a field, with grades whose score may not be a number.
MaxUpdates == 2

Without(data, field) == [k \in (DOMAIN data) \ {field} |-> data[k]]
ClassDocuments ==
  {NoDoc, SeedClassAnalytics} \cup
  { Without(SeedClassAnalytics, f) :
      f \in {"averageGrade", "totalAssignments", "commonStrugglingTopics",
             "studentPerformances"} }
StudentDocuments ==
  {NoDoc, SeedStudentAnalytics["s1"]} \cup
  { Without(SeedStudentAnalytics["s1"], f) :
      f \in {"averageScore", "totalAssignments", "strugglingTopics", "assignmentHistory"} }

ValidGradeData ==
  { [ assignmentId |-> "a2", assignmentName |-> "a2", overallScore |-> r.overallScore,
      totalPoints |-> r.totalPoints, strugglingTopics |-> r.strugglingTopics ] :
      r \in {x \in GradingResults : x.totalPoints # 0} }
NonNumericScore ==
  [ assignmentId |-> "a2", assignmentName |-> "a2", totalPoints |-> 10,
    strugglingTopics |-> <<TopicA>> ]
GradeInputs == ValidGradeData \cup {NonNumericScore}

\* The calls made so far to one of the two functions, each with its gradeData
\* and the aggregate it read.
CallsOf(fn) == SelectSeq(hist.log, LAMBDA e : e.fn = fn)
LastCall(fn) == CallsOf(fn)[Len(CallsOf(fn))]

InitMalformed ==
  /\ grades = EmptyMap
  /\ classAnalytics \in ClassDocuments
  /\ studentAnalytics \in
       {[s \in Students |-> IF s = "s1" THEN d ELSE NoDoc] : d \in StudentDocuments}
  /\ now = 2
  /\ givenTopics = EmptyMap
  /\ hist = [ base |-> "stored", log |-> << >>,
              orig |-> [ valid |-> TRUE, log |-> << >>,
                         doc |-> [class |-> classAnalytics,
                                  student |-> studentAnalytics["s1"]] ] ]
  /\ lastOp = [op |-> "none", students |-> {}, rerun |-> FALSE]
  /\ NoCalls

UpdateClassAnalytics ==
  \E gradeData \in GradeInputs :
    /\ Len(CallsOf("class")) < MaxUpdates
    /\ classAnalytics' = UpdateClassData(classAnalytics, gradeData, "s1", NameOf("s1"), now + 1)
    /\ now' = now + 1
    /\ hist' = [hist EXCEPT !.log = Append(@, [fn |-> "class", gradeData |-> gradeData,
                                            read |-> classAnalytics])]
    /\ lastOp' = [op |-> "updateClass", students |-> {"s1"}, rerun |-> FALSE]
    /\ UNCHANGED <<chatVars, grades, studentAnalytics, givenTopics, procs, version, serial>>

UpdateStudentAnalytics ==
  \E gradeData \in GradeInputs :
    /\ Len(CallsOf("student")) < MaxUpdates
    /\ studentAnalytics' =
         [studentAnalytics EXCEPT !["s1"] = UpdateStudentData(@, gradeData, now + 1)]
    /\ now' = now + 1
    /\ hist' = [hist EXCEPT !.log = Append(@, [fn |-> "student", gradeData |-> gradeData,
                                            read |-> studentAnalytics["s1"]])]
    /\ lastOp' = [op |-> "updateStudent", students |-> {"s1"}, rerun |-> FALSE]
    /\ UNCHANGED <<chatVars, grades, classAnalytics, givenTopics, procs, version, serial>>

NextMalformed == UpdateClassAnalytics \/ UpdateStudentAnalytics

\* The two update functions of firebase.js on stored aggregates of any shape.
SpecMalformed == InitMalformed /\ [][NextMalformed]_vars

\* ------------------------------------------------------------- C27
\* What an update leaves, given the aggregate it read: an average that is a
\* number and a count that is the old count (0 when missing) plus one.
WrittenSoundly(old, new, average) ==
  /\ IsFiniteNum(new[average])
  /\ new.totalAssignments = FieldOr(old, "totalAssignments", 0) + 1

RECURSIVE SumGuarded(_)
SumGuarded(calls) ==
  IF calls = << >> THEN Zero
  ELSE JsAdd(GuardedPercentage(Head(calls).gradeData), SumGuarded(Tail(calls)))
ValidCalls(fn) == SelectSeq(CallsOf(fn), LAMBDA e : "overallScore" \in DOMAIN e.gradeData)

\* The means an aggregate may hold after the calls made to fn, when the
\* aggregate stored at first was well formed: of all percentages, a score that
\* is not a number counting as 0, or of the percentages of the numeric
\* scores alone.
MeansOf(fn, stored) ==
  LET sum == IF stored.exists THEN Percentage(SeedGradeData.overallScore,
                                              SeedGradeData.totalPoints)
             ELSE Zero
      n == IF stored.exists THEN 1 ELSE 0
  IN { JsDivByInt(JsAdd(sum, SumGuarded(CallsOf(fn))), n + Len(CallsOf(fn))),
       JsDivByInt(JsAdd(sum, SumGuarded(ValidCalls(fn))), n + Len(ValidCalls(fn))) }
WellFormed(stored, complete) == stored = NoDoc \/ stored = complete
LastIsValid(fn) ==
  /\ CallsOf(fn) # << >>
  /\ "overallScore" \in DOMAIN LastCall(fn).gradeData

MeanOfValidKept ==
  /\ (WellFormed(hist.orig.doc.class, SeedClassAnalytics) /\ LastIsValid("class"))
       => classAnalytics.averageGrade \in MeansOf("class", hist.orig.doc.class)
  /\ (WellFormed(hist.orig.doc.student, SeedStudentAnalytics["s1"]) /\ LastIsValid("student"))
       => studentAnalytics["s1"].averageScore \in MeansOf("student", hist.orig.doc.student)

\* Each of the two aggregates, once a call has written it, was written soundly
\* from the aggregate that call read.
LastWrittenSoundly ==
  /\ CallsOf("class") # << >>
       => WrittenSoundly(LastCall("class").read, classAnalytics, "averageGrade")
  /\ CallsOf("student") # << >>
       => WrittenSoundly(LastCall("student").read, studentAnalytics["s1"], "averageScore")

\* C27: every call of updateClassAnalytics and updateStudentAnalytics, on an
\* aggregate that may lack a field and with a score that may not be a number,
\* writes an aggregate whose average is a number and whose totalAssignments
\* is the old count plus one, and an insert of a valid grade after such an
\* input leaves the mean of the valid percentages.
C27_MalformedInputNeverCorrupts == LastWrittenSoundly /\ MeanOfValidKept

\* The half of C27 that the code keeps: with numeric scores alone, a missing
\* field of the stored aggregate counts as 0 or as empty.
AllValid == \A i \in 1..Len(hist.log) : "overallScore" \in DOMAIN hist.log[i].gradeData
MissingFieldsDefaulted == AllValid => (LastWrittenSoundly /\ MeanOfValidKept)
\* A score that is not a number is stored as NaN, and the insert that follows
\* takes the stored NaN for 0 while it keeps the count.
NonNumericStoredAsNaN ==
  /\ (CallsOf("class") # << >> /\ ~LastIsValid("class"))
       => classAnalytics.averageGrade = NaN
  /\ (CallsOf("student") # << >> /\ ~LastIsValid("student"))
       => studentAnalytics["s1"].averageScore = NaN
NaNTakenForZero ==
  (LastIsValid("class") /\ LastCall("class").read.exists
     /\ FieldOr(LastCall("class").read, "averageGrade", Zero) = NaN)
    => classAnalytics.averageGrade =
         JsDivByInt(CurrentPercentage(LastCall("class").gradeData),
                    classAnalytics.totalAssignments)

\* ------------------------------------------------------------- stored conversation
\* addMessageToConversation, updateConversationTitle and deleteConversation
\* called on one conversation, from several pages of the teacher.  Each step
\* is what a call does between two awaits: getDoc, then setDoc.
MaxMessages == 3
MaxTitleCalls == 2

Adders == {"add1", "add2"}
\* The message a call is given: the n-th message passed to any call.
ContentOf(n) == IF n = 1 THEN "m1" ELSE IF n = 2 THEN "m2" ELSE "m3"
TitleArguments == {"", "First question"}
NewTitles == {"Renamed"}

StoredMessages(data) == FieldOr(data, "messages", << >>)
\* The positions and messages of a stored list.
Positions(list) == {<<i, list[i]>> : i \in 1..Len(list)}
OthersReading(c) == \E o \in ConvCallers \ {c} : convCalls[o].pc = "read"

\* addMessageToConversation up to await getDoc.
AddGet(c) ==
  /\ c \in Adders
  /\ convCalls[c].pc = "idle"
  /\ convLog.issued < MaxMessages
  /\ \E title \in TitleArguments :
       convCalls' = [convCalls EXCEPT ![c] =
                       [ pc |-> "read", snapshot |-> conversation,
                         message |-> ContentOf(convLog.issued + 1), title |-> title ]]
  /\ convLog' = [convLog EXCEPT !.issued = @ + 1,
                                !.overlapped = @ \/ OthersReading(c)]
  /\ UNCHANGED <<conversation, convNow>>
  /\ UNCHANGED <<storeVars, assistantVars, indexVars, naming, session, reader>>

\* addMessageToConversation from the snapshot to setDoc.
AddSet(c) ==
  /\ c \in Adders
  /\ convCalls[c].pc = "read"
  /\ LET data == convCalls[c].snapshot
         added == [ role |-> "user", content |-> convCalls[c].message,
                    timestamp |-> convNow ]
         updatedMessages == Append(StoredMessages(data), added)
         updateData ==
           IF Truthy(convCalls[c].title) /\ FieldOr(data, "title", "") = NewConversationTitle
           THEN [messages |-> updatedMessages, updatedAt |-> convNow,
                 title |-> convCalls[c].title]
           ELSE [messages |-> updatedMessages, updatedAt |-> convNow]
     IN /\ conversation' = Merge(data, updateData)
        /\ convLog' = [convLog EXCEPT !.stored = @ \cup Positions(updatedMessages),
                                      !.added = @ \cup {added}]
  /\ convCalls' = [convCalls EXCEPT ![c] = IdleConvCall]
  /\ convNow' = convNow + 1
  /\ UNCHANGED <<storeVars, assistantVars, indexVars, naming, session, reader>>

\* updateConversationTitle up to await getDoc.
TitleGet ==
  /\ convCalls["title"].pc = "idle"
  /\ convNow <= MaxMessages + MaxTitleCalls
  /\ \E title \in NewTitles :
       convCalls' = [convCalls EXCEPT !["title"] =
                       [ pc |-> "read", snapshot |-> conversation, message |-> "",
                         title |-> title ]]
  /\ convLog' = [convLog EXCEPT !.overlapped = @ \/ OthersReading("title")]
  /\ UNCHANGED <<conversation, convNow>>
  /\ UNCHANGED <<storeVars, assistantVars, indexVars, naming, session, reader>>

\* updateConversationTitle: setDoc({...conversation, title, updatedAt}).
TitleSet ==
  /\ convCalls["title"].pc = "read"
  /\ conversation' = Merge(convCalls["title"].snapshot,
                           [title |-> convCalls["title"].title, updatedAt |-> convNow])
  /\ convCalls' = [convCalls EXCEPT !["title"] = IdleConvCall]
  /\ convNow' = convNow + 1
  /\ UNCHANGED convLog
  /\ UNCHANGED <<storeVars, assistantVars, indexVars, naming, session, reader>>

\* deleteConversation: setDoc(conversationRef, {deleted: true, deletedAt}).
DeleteConversation ==
  /\ ~convLog.deleted
  /\ conversation' = [deleted |-> TRUE, deletedAt |-> convNow]
  /\ convLog' = [convLog EXCEPT !.deleted = TRUE]
  /\ convNow' = convNow + 1
  /\ UNCHANGED convCalls
  /\ UNCHANGED <<storeVars, assistantVars, indexVars, naming, session, reader>>

AddMessageToConversation == \E c \in Adders : AddGet(c) \/ AddSet(c)
UpdateConversationTitle == TitleGet \/ TitleSet

NextConversation ==
  \/ AddMessageToConversation
  \/ UpdateConversationTitle
  \/ DeleteConversation

\* One conversation, created by createConversation, and the three functions
\* called on it in any order and interleaving.
SpecConversation == Init /\ [][NextConversation]_vars

\* ------------------------------------------------------------- C28
\* Every message that was ever stored at a position of the list is there.
StoredMessagesKept == convLog.stored \subseteq Positions(StoredMessages(conversation))
\* Every message whose call has returned is in the list.
AddedMessagesPresent ==
  \A m \in convLog.added :
    \E i \in 1..Len(StoredMessages(conversation)) : StoredMessages(conversation)[i] = m

\* C28: after any sequence and interleaving of addMessageToConversation,
\* updateConversationTitle and deleteConversation on one conversation, every
\* message stored earlier is still in the list, unchanged and at its position,
\* and every message added by a call that returned is in the list.
C28_MessagesAppendOnly == StoredMessagesKept /\ AddedMessagesPresent

\* What the code keeps: as long as the conversation is not deleted and no call
\* reads the document while another call is between its read and its write,
\* the list only grows.
SequentialAppendOnly ==
  (~convLog.deleted /\ ~convLog.overlapped) => (StoredMessagesKept /\ AddedMessagesPresent)

\* ------------------------------------------------------------- C29
Chronological(list) ==
  \A i \in 1..Len(list) : \A j \in i..Len(list) : list[i].gradedAt <= list[j].gradedAt

\* C29: after any sequence of updateStudentAnalytics and
\* recalculateStudentAnalytics calls, the assignmentHistory of every student
\* aggregate is in the order of gradedAt and has exactly totalAssignments
\* entries.
C29_HistoryChronological ==
  \A s \in Students :
    studentAnalytics[s].exists
      => /\ Chronological(studentAnalytics[s].assignmentHistory)
         /\ Len(studentAnalytics[s].assignmentHistory) = studentAnalytics[s].totalAssignments

\* A history rebuilt by a recalculation from two grade records (entries
\* stamped as the records are).
C29_Witness ==
  /\ lastOp.op \in {"delete", "recalculateStudent"}
  /\ \E s \in lastOp.students :
       LET h == studentAnalytics[s].assignmentHistory
       IN /\ Len(h) = 2
          /\ h[1].gradedAt < h[2].gradedAt
          /\ \A i \in 1..2 : \E id \in ActiveIds :
               /\ grades[id].studentId = s
               /\ grades[id].gradedAt = h[i].gradedAt
\* A history rebuilt by a recalculation, then extended by an update: the first
\* entry has the stamp of its grade record, the last one the time of the update.
C29_WitnessAppended ==
  /\ lastOp.op = "save"
  /\ \E s \in lastOp.students :
       LET h == studentAnalytics[s].assignmentHistory
       IN /\ Len(h) = 2
          /\ \E id \in ActiveIds :
               grades[id].studentId = s /\ grades[id].gradedAt = h[1].gradedAt
          /\ \A id \in ActiveIds : grades[id].gradedAt # h[2].gradedAt
          /\ \E id \in DOMAIN grades : grades[id].deleted

\* ------------------------------------------------------------- generateConversationName
\* chatbot.js (the same function is in googleClassroom.js).  A string is a
\* sequence of characters.
maxRetries == 2
MaxTitleLen == 3

NewConversation == <<"N", "e", "w", " ", "C", "o", "n", "v", "e", "r", "s", "a", "t", "i", "o", "n">>
LowerLetters == <<"a", "b", "q">>
UpperLetters == <<"A", "B", "Q">>
Digits == {"1"}
IsLetterOrDigit(c) ==
  \/ c \in Digits
  \/ \E i \in 1..Len(LowerLetters) : c = LowerLetters[i] \/ c = UpperLetters[i]
\* toUpperCase, toLowerCase of a string
ToUpper(s) ==
  [k \in 1..Len(s) |->
     IF \E i \in 1..Len(LowerLetters) : s[k] = LowerLetters[i]
     THEN UpperLetters[CHOOSE i \in 1..Len(LowerLetters) : s[k] = LowerLetters[i]]
     ELSE s[k]]
ToLower(s) ==
  [k \in 1..Len(s) |->
     IF \E i \in 1..Len(UpperLetters) : s[k] = UpperLetters[i]
     THEN LowerLetters[CHOOSE i \in 1..Len(UpperLetters) : s[k] = UpperLetters[i]]
     ELSE s[k]]

\* replace(/[^a-zA-Z0-9\s]/g, '')
RemoveSpecial(s) == SelectSeq(s, LAMBDA c : IsLetterOrDigit(c) \/ IsWhite(c))
\* replace(/\s+/g, ' ')
RECURSIVE CollapseWhite(_)
CollapseWhite(s) ==
  IF s = << >> THEN << >>
  ELSE IF IsWhite(Head(s))
       THEN <<" ">> \o CollapseWhite(TrimStart(Tail(s)))
       ELSE <<Head(s)>> \o CollapseWhite(Tail(s))
\* split(' ')
RECURSIVE SplitAcc(_, _)
SplitAcc(s, word) ==
  IF s = << >> THEN <<word>>
  ELSE IF Head(s) = " " THEN <<word>> \o SplitAcc(Tail(s), << >>)
  ELSE SplitAcc(Tail(s), Append(word, Head(s)))
SplitOnSpace(s) == SplitAcc(s, << >>)
\* join(' ')
RECURSIVE JoinWords(_)
JoinWords(words) ==
  IF words = << >> THEN << >>
  ELSE IF Len(words) = 1 THEN words[1]
  ELSE words[1] \o <<" ">> \o JoinWords(Tail(words))

\* The words are all kept.
AllWords(words) == words
\* .slice(0, 3)
FirstWords(words) == Slice(words, 3)

\* rawTitle.replace(...).replace(...).trim().split(' ').filter(...).slice(0, 3)
\*         .join(' ').slice(0, 40)
Sanitized(rawTitle) ==
  Slice(JoinWords(FirstWords(SelectSeq(SplitOnSpace(Trim(CollapseWhite(RemoveSpecial(rawTitle)))),
                                       LAMBDA word : Len(word) > 0))),
        40)
\* w.charAt(0).toUpperCase() + w.slice(1).toLowerCase()
Capitalized(w) == ToUpper(SubSeq(w, 1, 1)) \o ToLower(SubSeq(w, 2, Len(w)))
\* The fallback made of the first words of the user message.
Fallback(userMessage) ==
  LET words == Slice(SelectSeq(SplitOnSpace(RemoveSpecial(userMessage)),
                               LAMBDA w : Len(w) > 2), 2)
      fallback == JoinWords([i \in 1..Len(words) |-> Capitalized(words[i])])
  IN IF fallback = << >> THEN NewConversation ELSE fallback

\* What the model may answer: every text of up to MaxTitleLen characters, and
\* longer ones.
TitleAlphabet == {"a", "1", " ", "\n", "!"}
Repeat(c, n) == [i \in 1..n |-> c]
LongTitles ==
  { Repeat("a", 45),
    Repeat("a", 19) \o <<" ">> \o Repeat("b", 19) \o <<" ">> \o <<"Q", "1">>,
    <<" ", "a", "b", "!", " ", "\n", "Q", "-", "a", " ", "1", "\n", "b", " ", "a">>,
    <<"!", "a", "!">> }
RawTitles ==
  UNION {[1..n -> TitleAlphabet] : n \in 1..MaxTitleLen} \cup LongTitles
UserMessages ==
  { << >>, <<"a", "b">>,
    <<"a", "b", "Q", "\n", "a", " ", "Q", "a", "b", "!", " ", "1", "1", "1">> }
ErrorStatuses == {400, 401, 403, 429, 500, 503}
\* What a request may end with: fetch rejects (status 0), an error status, or
\* status 200 with a body that cannot be parsed, has no text, or has a text.
Outcomes ==
  {[status |-> 0, body |-> "none"]}
    \cup {[status |-> st, body |-> "none"] : st \in ErrorStatuses}
    \cup {[status |-> 200, body |-> b] : b \in {"invalid", "empty"}}
    \cup {[status |-> 200, body |-> "text", text |-> t] : t \in RawTitles}

InitNaming ==
  /\ InitStore
  /\ AtRest
  /\ session = NoSession
  /\ reader = NoReader
  /\ \E userMessage \in UserMessages :
       naming = [ pc |-> "fetching", userMessage |-> userMessage, attempt |-> 0,
                  requests |-> << >>, source |-> "none", result |-> << >>,
                  threw |-> FALSE ]

Returned(source, title) ==
  [naming EXCEPT !.pc = "returned", !.source = source, !.result = title]

\* One round of the loop: the request, and what is made of its outcome up to
\* the return or to the start of the wait.
Attempt ==
  /\ naming.pc = "fetching"
  /\ naming.attempt < maxRetries
  /\ \E outcome \in Outcomes :
       LET requested == [naming EXCEPT !.requests = Append(@, outcome.status)]
           rawTitle == IF outcome.body = "text" THEN Trim(outcome.text) ELSE << >>
       IN IF outcome.status = 200 /\ outcome.body = "text" /\ rawTitle # << >>
          THEN \E sanitized \in {Sanitized(rawTitle)} :
                 naming' = IF Len(sanitized) < 2
                           THEN [Returned("fallback", Fallback(naming.userMessage))
                                   EXCEPT !.requests = requested.requests]
                           ELSE [Returned("model", sanitized)
                                   EXCEPT !.requests = requested.requests]
          ELSE \* catch (error): attempt++
               naming' = IF naming.attempt + 1 >= maxRetries
                         THEN [Returned("default", NewConversation)
                                 EXCEPT !.requests = requested.requests,
                                        !.attempt = naming.attempt + 1]
                         ELSE [requested EXCEPT !.attempt = naming.attempt + 1,
                                                !.pc = "waiting"]
  /\ UNCHANGED <<storeVars, assistantVars, indexVars, conversationVars, session, reader>>

\* setTimeout(resolve, 500) fires.
RetryAfterDelay ==
  /\ naming.pc = "waiting"
  /\ naming' = [naming EXCEPT !.pc = "fetching"]
  /\ UNCHANGED <<storeVars, assistantVars, indexVars, conversationVars, session, reader>>

NextNaming == Attempt \/ RetryAfterDelay
\* One call of generateConversationName, for every answer to its requests.
SpecNaming == InitNaming /\ [][NextNaming]_vars
\* A request is answered or fails, and the timer of the wait fires.
SpecNamingLive == SpecNaming /\ WF_vars(NextNaming)

\* ------------------------------------------------------------- C31
Words(title) == SelectSeq(SplitOnSpace(title), LAMBDA w : Len(w) > 0)
SingleSpaces(title) ==
  \A i \in 1..Len(title) - 1 : ~(title[i] = " " /\ title[i + 1] = " ")
WellFormedTitle(title) ==
  /\ Len(title) <= 40
  /\ Len(Words(title)) <= 3
  /\ \A i \in 1..Len(title) : IsLetterOrDigit(title[i]) \/ title[i] = " "
  /\ SingleSpaces(title)
AllFailed ==
  /\ Len(naming.requests) = maxRetries
  /\ naming.source \notin {"model", "fallback"}
NamingSafe ==
  /\ ~naming.threw
  /\ Len(naming.requests) <= maxRetries
  /\ naming.pc = "returned"
       => /\ naming.result # << >>
          /\ naming.source = "default" <=> AllFailed
          /\ naming.source = "default" => naming.result = NewConversation
          /\ naming.source = "model" => WellFormedTitle(naming.result)

C31_WitnessCut ==
  /\ naming.pc = "returned"
  /\ naming.source = "model"
  /\ Len(naming.result) = 40
\* Every attempt failed.
C31_WitnessDefault ==
  /\ naming.pc = "returned"
  /\ naming.source = "default"
  /\ naming.result = NewConversation

\* ------------------------------------------------------------- C32
NonRetryable == {400, 401, 403}
Retryable == {st \in ErrorStatuses : st = 429 \/ st >= 500}

\* C32: generateConversationName issues no request after a response with an
\* error status other than 429 and 5xx, and tries again after 429 or 5xx
\* while attempts are left.
C32_RetriesOnlyRetryable ==
  /\ \A i \in 1..Len(naming.requests) :
       naming.requests[i] \in NonRetryable => i = Len(naming.requests)
  /\ (naming.pc = "returned" /\ naming.requests # << >>
        /\ naming.requests[Len(naming.requests)] \in Retryable)
       => Len(naming.requests) = maxRetries

\* What the code does: every failure is followed by another request while
\* attempts are left, whatever the status.
EveryFailureRetried ==
  (naming.pc = "returned" /\ naming.source = "default")
    => Len(naming.requests) = maxRetries
RetryableRetried ==
  \A i \in 1..Len(naming.requests) :
    (naming.requests[i] \in Retryable /\ i < maxRetries)
      => naming.pc \in {"waiting", "fetching"} \/ Len(naming.requests) > i

\* ------------------------------------------------------------- C33
\* listenToConversations: the list passed to the callback for a collection
\* that holds the one conversation.  The query is ordered by updatedAt: a
\* document without that field is not in its result.
ListenToConversations(data) ==
  IF "updatedAt" \in DOMAIN data /\ ~FieldOr(data, "deleted", FALSE)
  THEN <<data>>
  ELSE << >>

DeleteStep == ~convLog.deleted /\ (convLog.deleted)'
MarkedDeleted(data) == FieldOr(data, "deleted", FALSE)
KeptFields == {"messages", "title", "createdAt"}

\* C33: deleteConversation sets deleted and deletedAt and leaves the messages,
\* the title and the creation time of the stored conversation as they were,
\* and a conversation marked as deleted is not in the list delivered by
\* listenToConversations.
C33_DeleteIsSoft ==
  [][ /\ DeleteStep
        => /\ MarkedDeleted(conversation')
           /\ "deletedAt" \in DOMAIN conversation'
           /\ \A f \in KeptFields \cap DOMAIN conversation :
                f \in DOMAIN conversation' /\ conversation'[f] = conversation[f]
      /\ MarkedDeleted(conversation') => ListenToConversations(conversation') = << >> ]_vars

\* What the code keeps: the marker is set, and a marked conversation is not
\* listed.
DeletedNotListed ==
  MarkedDeleted(conversation) => ListenToConversations(conversation) = << >>
\* What deleteConversation leaves of the document.
DeleteLeavesMarkerOnly ==
  [][DeleteStep => DOMAIN conversation' = {"deleted", "deletedAt"}]_vars

\* ------------------------------------------------------------- several turns
\* handleSendMessage called again after handleStopMessage: the turns of one
\* chat panel, each with its own controller, batching buffer and timer, on the
\* React state isSendingMessage, abortController and messages.  A chunk of
\* turn t is the text <<t>>; a message carries the turn that made it.
MaxTurns == 3
MaxChunks == 2

Turns == 1..MaxTurns
NoTurnYet == [pc |-> "none", aborted |-> FALSE, received |-> 0, batchedText |-> << >>,
              timeoutId |-> FALSE]
InitSession ==
  /\ InitStore
  /\ AtRest
  /\ naming = NoNaming
  /\ reader = NoReader
  /\ session = [ isSendingMessage |-> FALSE, abortController |-> 0, messages |-> << >>,
                 error |-> FALSE, turns |-> [t \in Turns |-> NoTurnYet],
                 stopped |-> FALSE ]

InFlight(t) == session.turns[t].pc \in {"retrieving", "generating"}
\* finally: setIsSendingMessage(false); setAbortController(null)
SettleTurn(s, t) ==
  [s EXCEPT !.isSendingMessage = FALSE, !.abortController = 0, !.turns[t].pc = "settled"]

\* handleSendMessage up to the call of sendChatMessageWithRAG.
SendMessage ==
  /\ ~session.isSendingMessage
  /\ \E t \in Turns :
       /\ session.turns[t].pc = "none"
       /\ \A u \in Turns : u < t => session.turns[u].pc # "none"
       /\ session' =
            [session EXCEPT
               !.isSendingMessage = TRUE,
               !.error = FALSE,
               !.abortController = t,
               !.messages = @ \o << [role |-> "user", content |-> << >>, turn |-> t],
                                    [role |-> "assistant", content |-> << >>, turn |-> t] >>,
               !.turns[t].pc = "retrieving"]
  /\ UNCHANGED <<storeVars, assistantVars, indexVars, conversationVars, naming, reader>>

\* The retrieval step ends (it does not take the signal) and fetch is called.
FetchIssued ==
  /\ \E t \in Turns :
       /\ session.turns[t].pc = "retrieving"
       /\ session' = [session EXCEPT !.turns[t].pc = "generating"]
  /\ UNCHANGED <<storeVars, assistantVars, indexVars, conversationVars, naming, reader>>

\* A text part is read: updateChunk.
ChunkReceived ==
  /\ \E t \in Turns :
       /\ session.turns[t].pc = "generating"
       /\ ~session.turns[t].aborted
       /\ session.turns[t].received < MaxChunks
       /\ session' = [session EXCEPT !.turns[t].received = @ + 1,
                                     !.turns[t].batchedText = @ \o <<t>>,
                                     !.turns[t].timeoutId = TRUE]
  /\ UNCHANGED <<storeVars, assistantVars, indexVars, conversationVars, naming, reader>>

\* setTimeout(flush, 50) of a turn fires.
FlushTimerFires ==
  /\ \E t \in Turns :
       /\ session.turns[t].timeoutId
       /\ session' = [session EXCEPT
                        !.messages = IF session.turns[t].batchedText # << >>
                                     THEN OnChunk(@, session.turns[t].batchedText)
                                     ELSE @,
                        !.turns[t].batchedText = << >>,
                        !.turns[t].timeoutId = FALSE]
  /\ UNCHANGED <<storeVars, assistantVars, indexVars, conversationVars, naming, reader>>

\* The stream of a turn ends: the last flush, the return, finally.
TurnCompletes ==
  /\ \E t \in Turns :
       /\ session.turns[t].pc = "generating"
       /\ ~session.turns[t].aborted
       /\ session' = [SettleTurn(session, t) EXCEPT
                        !.messages = IF session.turns[t].batchedText # << >>
                                     THEN OnChunk(@, session.turns[t].batchedText)
                                     ELSE @,
                        !.turns[t].batchedText = << >>,
                        !.turns[t].timeoutId = FALSE]
  /\ UNCHANGED <<storeVars, assistantVars, indexVars, conversationVars, naming, reader>>

\* fetch or reader.read() of a stopped turn rejects with AbortError: catch
\* (nothing is reported), finally.
AbortSettles ==
  /\ \E t \in Turns :
       /\ session.turns[t].pc = "generating"
       /\ session.turns[t].aborted
       /\ session' = SettleTurn(session, t)
  /\ UNCHANGED <<storeVars, assistantVars, indexVars, conversationVars, naming, reader>>

\* The request of a turn fails: catch (setError, the last message is
\* removed), finally.
TurnFails ==
  /\ \E t \in Turns :
       /\ session.turns[t].pc = "generating"
       /\ ~session.turns[t].aborted
       /\ session.turns[t].received = 0
       /\ session' = [SettleTurn(session, t) EXCEPT
                        !.error = TRUE,
                        !.messages = SubSeq(@, 1, Len(@) - 1)]
  /\ UNCHANGED <<storeVars, assistantVars, indexVars, conversationVars, naming, reader>>

\* handleStopMessage
StopMessage ==
  /\ session' = [session EXCEPT
                   !.turns = IF session.abortController # 0
                             THEN [@ EXCEPT ![session.abortController].aborted = TRUE]
                             ELSE @,
                   !.isSendingMessage = FALSE,
                   !.abortController = 0,
                   !.stopped = TRUE]
  /\ UNCHANGED <<storeVars, assistantVars, indexVars, conversationVars, naming, reader>>

NextSession ==
  \/ SendMessage
  \/ FetchIssued
  \/ ChunkReceived
  \/ FlushTimerFires
  \/ TurnCompletes
  \/ AbortSettles
  \/ TurnFails
  \/ StopMessage

\* Up to MaxTurns turns of the chat panel, with stop calls at any time.
SpecSession == InitSession /\ [][NextSession]_vars

\* ------------------------------------------------------------- C34
\* A turn that is under way and was not stopped.
Running(t) == InFlight(t) /\ ~session.turns[t].aborted

\* C34: while a turn is retrieving or generating, isSendingMessage is true
\* and abortController is the controller of that turn, and at most one turn
\* is under way, for every interleaving of handleSendMessage,
\* handleStopMessage and the settlement of stopped turns.
C34_OneTurnInFlight ==
  /\ \A t \in Turns :
       Running(t) => session.isSendingMessage /\ session.abortController = t
  /\ \A t, u \in Turns : (Running(t) /\ Running(u)) => t = u

\* What the code keeps: as long as handleStopMessage was never called, the
\* turn in flight is the only one and holds the controller.
NoStopOneTurn ==
  ~session.stopped
    => /\ \A t \in Turns :
            InFlight(t) => session.isSendingMessage /\ session.abortController = t
       /\ \A t, u \in Turns : (InFlight(t) /\ InFlight(u)) => t = u
\* The settlement of a stopped turn clears the controller of the turn that
\* was started after the stop.
LateSettlementClears ==
  \E t, u \in Turns :
    /\ t < u
    /\ session.turns[t].pc = "settled" /\ session.turns[t].aborted
    /\ Running(u)
    /\ session.abortController = 0

\* ------------------------------------------------------------- C35
\* C35: the content of every assistant message is made of chunks of the turn
\* that made the message only.
C35_ChunksStayInTheirTurn ==
  \A i \in 1..Len(session.messages) :
    session.messages[i].role = "assistant"
      => \A k \in 1..Len(session.messages[i].content) :
           session.messages[i].content[k] = session.messages[i].turn

\* What the code keeps: without a stop, every chunk is in the message of its
\* turn.
NoStopChunksInTurn == ~session.stopped => C35_ChunksStayInTheirTurn

\* ------------------------------------------------------------- a failed update
\* handleSaveGrades when a transaction of Promise.all([updateClassAnalytics,
\* updateStudentAnalytics]) rejects: saveGrade has stored the grade, the
\* other transaction commits or fails as well, the catch reports the error
\* and indexGradeForRAG is not called.
Rejected == {{"class"}, {"student"}, {"class", "student"}}
SaveGradesUpdateFails ==
  /\ Cardinality(DOMAIN grades) < MaxGrades
  /\ \E sub \in Submissions, r \in IndexedResults, failed \in Rejected :
       LET id == Cardinality(DOMAIN grades) + 1
           tu == now + 1
           gradeData == [ assignmentId |-> sub[2], assignmentName |-> sub[2],
                          overallScore |-> r.overallScore,
                          totalPoints |-> r.totalPoints,
                          strugglingTopics |-> r.strugglingTopics ]
           saved == [ classId |-> ClassId, teacherId |-> TeacherId,
                      studentId |-> sub[1], studentName |-> NameOf(sub[1]),
                      assignmentId |-> sub[2], assignmentName |-> sub[2],
                      overallScore |-> r.overallScore,
                      totalPoints |-> r.totalPoints,
                      strugglingTopics |-> << >> ]
       IN /\ grades' = MapPut(grades, id, GradeDoc(id, saved, now))
          /\ classAnalytics' =
               IF "class" \in failed
               THEN classAnalytics
               ELSE UpdateClassData(classAnalytics, gradeData, sub[1], NameOf(sub[1]), tu)
          /\ studentAnalytics' =
               IF "student" \in failed
               THEN studentAnalytics
               ELSE [studentAnalytics EXCEPT ![sub[1]] = UpdateStudentData(@, gradeData, tu)]
          /\ now' = 2 * ((now + 2) \div 2)
          /\ lastOp' = [op |-> "saveFailed", students |-> {sub[1]}, rerun |-> FALSE]
  /\ reports' = reports \cup {Report("save", 0, "error")}
  /\ UNCHANGED <<assistantVars, clientVars, givenTopics, hist, procs, version, serial,
                 indexJobs, lessonPlans, ragLog>>

SaveGradesCommitted == SaveGrades(IndexedResults)

NextPartial ==
  \/ SaveGradesCommitted
  \/ SaveGradesUpdateFails
  \/ HandleDeleteSelectedGrades

\* The two handlers, with saves whose aggregate updates can fail.
SpecPartial == Init /\ [][NextPartial]_vars

\* ------------------------------------------------------------- C36
\* The entry of student s in the class aggregate and the aggregate of s carry
\* the same count and the same average.
Agree(s) ==
  /\ classAnalytics.exists
  /\ s \in DOMAIN classAnalytics.studentPerformances
  /\ studentAnalytics[s].exists
  /\ classAnalytics.studentPerformances[s].totalAssignments = studentAnalytics[s].totalAssignments
  /\ classAnalytics.studentPerformances[s].averageScore = studentAnalytics[s].averageScore

\* C36: in every state between the operations, for every student with an
\* active grade in the class, the student's entry in the class aggregate has
\* the totalAssignments and averageScore of the student's own aggregate, also
\* after a save of which one of the two update transactions failed.
C36_AggregatesAgree == \A s \in Students : LiveIdsOf(s) # {} => Agree(s)

\* What the code keeps: when both updates of every save committed and every
\* totalPoints is positive, the two aggregates agree for every student with
\* an active grade.
NoUpdateFailed == \A r \in reports : r.result # "error"
CommittedSavesAgree ==
  (PositiveTotals /\ NoUpdateFailed) => \A s \in Students : LiveIdsOf(s) # {} => Agree(s)
\* A save whose student update failed leaves an active grade that only the
\* class aggregate counts.
OnlyClassCounts ==
  \E s \in Students :
    /\ LiveIdsOf(s) # {}
    /\ classAnalytics.exists /\ s \in DOMAIN classAnalytics.studentPerformances
    /\ ~studentAnalytics[s].exists

\* ------------------------------------------------------------- C37
\* C37: commonStrugglingTopics[t] is the number of occurrences of the
\* normalized topic t in the topic lists of the active grades, however the
\* aggregate was produced (first insert, later inserts, recalculation), also
\* when a grade names two topics with the same key.
C37_TopicCountsAreOccurrences ==
  classAnalytics.exists =>
    /\ DOMAIN classAnalytics.commonStrugglingTopics = TopicKeys(LiveIds)
    /\ \A key \in TopicKeys(LiveIds) :
         classAnalytics.commonStrugglingTopics[key] =
           Cardinality(TopicOccurrences(LiveIds, key))

\* No stored grade names two topics with the same key.
NoRepeatedTopic ==
  \A id \in DOMAIN grades :
    \A j, k \in 1..Len(grades[id].strugglingTopics) :
      NormalizeTopic(grades[id].strugglingTopics[j]) =
        NormalizeTopic(grades[id].strugglingTopics[k]) => j = k
\* What the code keeps: the counts are the occurrences as long as no grade
\* repeats a topic.
DistinctTopicsCounted == NoRepeatedTopic => C37_TopicCountsAreOccurrences
\* The first insert has counted a repeated topic once.
RepeatedTopicCountedOnce ==
  /\ classAnalytics.exists
  /\ \E key \in TopicKeys(LiveIds) :
       /\ classAnalytics.commonStrugglingTopics[key] = 1
       /\ Cardinality(TopicOccurrences(LiveIds, key)) = 2

\* ------------------------------------------------------------- the event stream
\* The loop of sendChatMessageWithRAG over reader.read(): the body is a
\* sequence of characters, an event is the line 'data: ' + JSON + '\n', and
\* each read returns the next characters, as many as the network delivers.
\* The JSON of an event is written {p1 p2 ..}: a part "x" or "y" is a text
\* part with that text, "e" a text part with the empty text, "F" a
\* functionCall part.  The texts go through the handler made by
\* createBatchedChunkHandler, whose timers are numbered as they are set
\* (timeoutId 0 is null).
MaxEvents == 2
MaxEventParts == 2
LF == "\n"
DataPrefix == <<"d", "a", "t", "a", ":", " ">>
PartSymbols == {"x", "y", "e", "F"}
Events == UNION {[1..n -> PartSymbols] : n \in 1..MaxEventParts}
EventStreams == UNION {[1..n -> Events] : n \in 1..MaxEvents}
RECURSIVE Encode(_)
Encode(events) ==
  IF events = << >> THEN << >>
  ELSE DataPrefix \o <<"{">> \o Head(events) \o <<"}", LF>> \o Encode(Tail(events))

\* chunk.split('\n')
RECURSIVE LinesAcc(_, _, _)
LinesAcc(chunk, line, out) ==
  IF chunk = << >> THEN Append(out, line)
  ELSE IF Head(chunk) = LF
       THEN LinesAcc(Tail(chunk), << >>, Append(out, line))
       ELSE LinesAcc(Tail(chunk), Append(line, Head(chunk)), out)
Lines(chunk) == LinesAcc(chunk, << >>, << >>)
\* line.startsWith('data: ')
StartsWith(line, prefix) ==
  Len(line) >= Len(prefix) /\ SubSeq(line, 1, Len(prefix)) = prefix
\* JSON.parse(jsonStr) followed by data.candidates?.[0]?.content?.parts || []:
\* a text that is not a whole object throws.
JsonParse(jsonStr) ==
  IF /\ Len(jsonStr) >= 2
     /\ jsonStr[1] = "{"
     /\ jsonStr[Len(jsonStr)] = "}"
     /\ \A i \in 2..(Len(jsonStr) - 1) : jsonStr[i] \in PartSymbols
  THEN [ok |-> TRUE, parts |-> SubSeq(jsonStr, 2, Len(jsonStr) - 1)]
  ELSE [ok |-> FALSE, parts |-> << >>]
NoResult ==
  [ fullText |-> << >>, toolCalls |-> << >>,
    batchedText |-> << >>, timeoutId |-> 0, timers |-> {}, set |-> 0,
    delivered |-> << >>, flushed |-> FALSE ]
\* The timer is left running.
KeepTimeout(timers, id) == timers
\* clearTimeout(timeoutId)
ClearTimeout(timers, id) == timers \ {id}
\* updateChunk(chunk)
UpdateChunk(acc, chunk) ==
  [acc EXCEPT !.batchedText = @ \o chunk,
              !.timers = ClearTimeout(@, acc.timeoutId) \cup {acc.set + 1},
              !.timeoutId = acc.set + 1,
              !.set = @ + 1,
              !.flushed = FALSE]
\* flush()
FlushHandler(acc) ==
  [acc EXCEPT !.delivered = IF acc.batchedText # << >> THEN Append(@, acc.batchedText) ELSE @,
              !.batchedText = << >>,
              !.timers = ClearTimeout(@, acc.timeoutId),
              !.timeoutId = 0,
              !.flushed = TRUE]
\* for (const part of parts)
RECURSIVE ReadParts(_, _)
ReadParts(acc, ps) ==
  IF ps = << >> THEN acc
  ELSE ReadParts(IF Head(ps) = "F"
                 THEN [acc EXCEPT !.toolCalls = Append(@, Head(ps))]
                 ELSE IF Head(ps) = "e"
                      THEN acc
                      ELSE UpdateChunk([acc EXCEPT !.fullText = Append(@, Head(ps))],
                                       <<Head(ps)>>),
                 Tail(ps))
\* for (const line of lines): a line without the prefix is skipped, a parse
\* error is ignored.
RECURSIVE ReadLines(_, _)
ReadLines(acc, lines) ==
  IF lines = << >> THEN acc
  ELSE LET line == Head(lines)
           json == JsonParse(SubSeq(line, Len(DataPrefix) + 1, Len(line)))
       IN ReadLines(IF StartsWith(line, DataPrefix) /\ json.ok
                    THEN ReadParts(acc, json.parts)
                    ELSE acc,
                    Tail(lines))
\* One round of the while loop on the characters of one read.
ReadChunk(acc, chunk) == ReadLines(acc, Lines(chunk))

InitReader ==
  /\ InitStore
  /\ AtRest
  /\ naming = NoNaming
  /\ session = NoSession
  /\ \E events \in EventStreams :
       reader = [ pc |-> "reading", events |-> events, body |-> Encode(events),
                  read |-> 0, result |-> NoResult, cut |-> FALSE ]

\* reader.read() returns the next n characters of the body.
ReadArrives ==
  /\ reader.pc = "reading"
  /\ reader.read < Len(reader.body)
  /\ \E n \in 1..(Len(reader.body) - reader.read) :
       LET chunk == SubSeq(reader.body, reader.read + 1, reader.read + n)
       IN reader' = [reader EXCEPT
                       !.read = @ + n,
                       !.result = ReadChunk(@, chunk),
                       !.cut = @ \/ (reader.read + n < Len(reader.body) /\ chunk[n] # LF)]
  /\ UNCHANGED <<storeVars, assistantVars, indexVars, conversationVars, naming, session>>

\* A timer set by updateChunk fires: flush.
BatchTimerFires ==
  /\ \E id \in reader.result.timers :
       reader' = [reader EXCEPT !.result = FlushHandler([@ EXCEPT !.timers = @ \ {id}])]
  /\ UNCHANGED <<storeVars, assistantVars, indexVars, conversationVars, naming, session>>

\* reader.read() returns done: the last flush, then the function returns
\* fullText and toolCalls.
ReadDone ==
  /\ reader.pc = "reading"
  /\ reader.read = Len(reader.body)
  /\ reader' = [reader EXCEPT !.pc = "done", !.result = FlushHandler(@)]
  /\ UNCHANGED <<storeVars, assistantVars, indexVars, conversationVars, naming, session>>

NextReader == ReadArrives \/ BatchTimerFires \/ ReadDone

\* The reading loop on every stream of up to MaxEvents events, split into
\* reads in every way.
SpecReader == InitReader /\ [][NextReader]_vars

\* ------------------------------------------------------------- C38
\* What the function returns when the whole body arrives in one read.
WholeBody == ReadChunk(NoResult, reader.body)

\* C38: for a given sequence of events the returned text and tool calls are
\* the same for every way of splitting the body into reads, also when a read
\* ends inside a 'data:' line.
C38_ReadsDoNotMatter ==
  reader.pc = "done" =>
    /\ reader.result.fullText = WholeBody.fullText
    /\ reader.result.toolCalls = WholeBody.toolCalls

\* What the code keeps: when every read ends at a line break, the result is
\* that of the whole body, which is the text and the calls of all events.
RECURSIVE PartsOfEvents(_)
PartsOfEvents(events) ==
  IF events = << >> THEN << >> ELSE Head(events) \o PartsOfEvents(Tail(events))
WholeLinesReadAlike ==
  (reader.pc = "done" /\ ~reader.cut) =>
    LET all == ReadParts(NoResult, PartsOfEvents(reader.events))
    IN /\ reader.result.fullText = WholeBody.fullText
       /\ reader.result.toolCalls = WholeBody.toolCalls
       /\ reader.result.fullText = all.fullText
       /\ reader.result.toolCalls = all.toolCalls
\* A read that ended inside a line has lost the text of that line.
CutLineLost ==
  /\ reader.pc = "done"
  /\ reader.cut
  /\ Len(reader.result.fullText) < Len(WholeBody.fullText)


\* ------------------------------------------------------------- C39
\* C39: in every state of the batching handler, the chunks passed to the
\* callback followed by the buffer are the text received so far, at most one
\* timer is pending, a timer is pending whenever the buffer is not empty, no
\* chunk passed to the callback is empty, and after a flush the buffer is
\* empty and no timer is pending.
C39_BatchingInvariants ==
  LET b == reader.result
  IN /\ Flatten(b.delivered) \o b.batchedText = b.fullText
     /\ Cardinality(b.timers) <= 1
     /\ b.batchedText # << >> => b.timers # {}
     /\ \A i \in 1..Len(b.delivered) : b.delivered[i] # << >>
     /\ b.flushed => (b.batchedText = << >> /\ b.timers = {} /\ b.timeoutId = 0)
     /\ b.timers \subseteq {b.timeoutId}

\* Two texts arrived within the delay and went to the callback as one chunk
\* when the timer fired; a third was passed on by the last flush.
C39_Witness ==
  /\ reader.pc = "done"
  /\ reader.result.delivered = << <<"x", "y">>, <<"x">> >>
  /\ reader.result.set = 3
\* A timer is pending with a text in the buffer after an earlier flush and a
\* read with an empty text part.
C39_WitnessPending ==
  /\ reader.pc = "reading"
  /\ reader.result.delivered # << >>
  /\ reader.result.batchedText # << >>
  /\ reader.result.timers = {reader.result.timeoutId}
  /\ \E i \in 1..Len(reader.events) :
       \E j \in 1..Len(reader.events[i]) : reader.events[i][j] = "e"

\* The same in the turn of the chat panel, where the turn can be aborted.
BufferHoldsUndelivered ==
  /\ Flatten(delivered) \o batchedText = fullText
  /\ batchedText # << >> => timeoutId
  /\ \A i \in 1..Len(delivered) : delivered[i] # << >>


\* ------------------------------------------------------------- C40
\* The student document of save j has been written.
StudentDocumentWritten(j) ==
  indexJobs[j].at \in {"readClass", "embedClass", "upsertClass", "done"}
    \/ (indexJobs[j].at = "failed" /\ j \in ragLog.student)

\* C40: handleDeleteSelectedGrades leaves every semantic document as it is:
\* the student document of every save whose document was written is in the
\* index whether or not the grade has been deleted, and a class document
\* that was written is still there.
WrittenDocumentsKept ==
  /\ \A j \in 1..Len(indexJobs) : StudentDocumentWritten(j) => j \in ragLog.student
  /\ (\E j \in 1..Len(indexJobs) : indexJobs[j].at = "done") => ragLog.class.exists
\* A step that soft-deletes a grade.
GradesDeleted == \E id \in DOMAIN grades : ~grades[id].deleted /\ grades'[id].deleted
C40_DeleteLeavesIndex ==
  /\ []WrittenDocumentsKept
  /\ [][GradesDeleted => ragLog' = ragLog]_vars

\* The grade of the first save was deleted after its documents were written:
\* both documents are in the index.
C40_Witness ==
  /\ Len(indexJobs) >= 1
  /\ indexJobs[1].at = "done"
  /\ grades[1].deleted
  /\ 1 \in ragLog.student
  /\ ragLog.class.exists
  /\ ragLog.class.job = 1
  /\ lastOp.op = "delete"

====
